---- MODULE Spec2Model ----
(***************************************************************************)
(* State-machine model of UserDatabase (src/db.py): the users collection   *)
(* with its two unique indexes, the game_logs collection, and the callers  *)
(* that run the CRUD, scoring and game-activity methods against them.      *)
(* Every pymongo call (find_one, insert_one, update_one, delete_one,       *)
(* count_documents, find) is one atomic step of the store; a method that   *)
(* makes several of them is several steps, so that other callers can run   *)
(* between them.                                                           *)
(***************************************************************************)
EXTENDS Integers, Sequences, FiniteSets, TLC

\* ------------------------------------------------------------------ bounds
MaxUsers == 2          \* ObjectIds the users collection hands out
MaxLog == 3            \* documents in game_logs
RankPlayers == 4       \* players in the store the ranking is computed over
MaxLimit == 3          \* largest `limit` passed to get_leaderboard and the histories
HistoryEvents == 3     \* events in the ledger the histories are read from
StatsEvents == 11      \* events in the ledger the statistics are computed from

\* ------------------------------------------------------------ input values
Callers == {"c1", "c2"}
ObjectIds == 1..MaxUsers
InvalidId == 0         \* a string bson.ObjectId() rejects (raises InvalidId)
UserIdInputs == ObjectIds \cup {InvalidId}

\* the two test users of main()
JohnDoe == [username |-> "john_doe", email |-> "john.doe@example.com",
            first_name |-> "John", last_name |-> "Doe"]
JaneSmith == [username |-> "jane_smith", email |-> "jane.smith@example.com",
              first_name |-> "Jane", last_name |-> "Smith"]
DemoProfiles == {JohnDoe, JaneSmith}

WinPoints == {15}                     \* main()'s first win
GameTypes == {"treasure_hunt"}
\* time_taken in tenths of a second: 30.5 s and 60.0 s, as in main()
TimesTaken == {305, 600}
Riddles == { [riddle_id |-> "riddle_001", location |-> "Physical Science Building"] }
Treasures ==
    { [treasure_id |-> "treasure_001", location |-> "Physical Science Building",
       coordinates |-> [latitude |-> 424483579, longitude |-> -764800221]],
      [treasure_id |-> "treasure_002", location |-> "Mann Library",
       coordinates |-> [latitude |-> 424483176, longitude |-> -764765426]] }

\* ------------------------------------------------------------------- state
VARIABLES
    users,       \* users collection: _id -> document (a function field -> value)
    game_logs,   \* game_logs collection, in insertion order
    nextId,      \* the next ObjectId insert_one generates
    clock,       \* the reading of datetime.utcnow() (only Tick moves it)
    pc,          \* per caller: where it stands in the method it runs
    loc,         \* per caller: the locals of the method it runs
    ret,         \* what the last step returned to its caller (NoRet: it returned nothing)
    credited     \* per _id: number and point sum of the add_win calls that returned success

vars == <<users, game_logs, nextId, clock, pc, loc, ret, credited>>

\* ----------------------------------------------------------------- helpers
\* dict.get(field, default)
Get(doc, field, default) == IF field \in DOMAIN doc THEN doc[field] ELSE default

\* {"$set": patch} applied to a document
SetFields(doc, patch) ==
    [f \in DOMAIN doc \cup DOMAIN patch |->
        IF f \in DOMAIN patch THEN patch[f] ELSE doc[f]]

\* a mutation of connect(): the collection without its unique indexes
NoUniqueIndexes == {}

\* a mutation of connect(): the username index left out
EmailIndexOnly == {"email"}

\* create_index("email", unique=True); create_index("username", unique=True)
UniqueIndexes == {"email", "username"}

\* the store's unique-index check for writing `doc` under `id`
DuplicateKey(doc, id) ==
    \E other \in DOMAIN users \ {id} :
        \E k \in UniqueIndexes :
            /\ k \in DOMAIN doc
            /\ k \in DOMAIN users[other]
            /\ users[other][k] = doc[k]

NoLoc == [outer |-> "none"]
NoRet == [op |-> "none", outcome |-> "none"]
NoArgs == [none |-> TRUE]

Return(c, result) ==
    /\ pc' = [pc EXCEPT ![c] = "idle"]
    /\ loc' = [loc EXCEPT ![c] = NoLoc]
    /\ ret' = result

\* events the calls in progress will still insert into game_logs
Pending == Cardinality({c \in Callers : pc[c] \in {"aw_find", "aw_update", "aw_log"}})

\* room in game_logs for a call that inserts up to n events
Room(n) == Len(game_logs) + Pending + n <= MaxLog

\* ------------------------------------------------------------------- Init
Init ==
    /\ users = <<>>
    /\ game_logs = <<>>
    /\ nextId = 1
    /\ clock = 0
    /\ pc = [c \in Callers |-> "idle"]
    /\ loc = [c \in Callers |-> NoLoc]
    /\ ret = NoRet
    /\ credited = [u \in ObjectIds |-> [n |-> 0, sum |-> 0]]

\* --------------------------------------------------------------- create_user
\* a mutation of the validation: only the two indexed fields required
RequiredKeysOnly == {"username", "email"}

\* required_fields of create_user
RequiredFields == {"username", "email", "first_name", "last_name"}

\* a mutation of the insert: a document with a taken email or username is
\* inserted all the same
CreateUserUnchecked(c, user_data) ==
    /\ pc[c] = "idle"
    /\ IF ~(RequiredFields \subseteq DOMAIN user_data)
       THEN /\ Return(c, [op |-> "create_user", outcome |-> "error", error |-> "ValueError"])
            /\ UNCHANGED <<users, nextId>>
       ELSE LET doc == SetFields(user_data,
                           [created_at |-> clock, updated_at |-> clock,
                            is_active |-> TRUE])
            IN  /\ nextId <= MaxUsers
                /\ users' = (nextId :> doc) @@ users
                /\ nextId' = nextId + 1
                /\ Return(c, [op |-> "create_user", outcome |-> "success",
                              user_id |-> nextId,
                              username |-> doc.username,
                              email |-> doc.email])
    /\ UNCHANGED <<game_logs, clock, credited>>

CreateUser(c, user_data) ==
    /\ pc[c] = "idle"
    /\ IF ~(RequiredFields \subseteq DOMAIN user_data)
       THEN \* ValueError, caught by `except Exception`
            /\ Return(c, [op |-> "create_user", outcome |-> "error", error |-> "ValueError"])
            /\ UNCHANGED <<users, nextId>>
       ELSE LET doc == SetFields(user_data,
                           [created_at |-> clock, updated_at |-> clock,
                            is_active |-> TRUE])
            IN  IF DuplicateKey(doc, nextId)
                THEN /\ Return(c, [op |-> "create_user", outcome |-> "duplicate"])
                     /\ UNCHANGED <<users, nextId>>
                ELSE /\ nextId <= MaxUsers
                     /\ users' = (nextId :> doc) @@ users
                     /\ nextId' = nextId + 1
                     /\ Return(c, [op |-> "create_user", outcome |-> "success",
                                   user_id |-> nextId,
                                   username |-> doc.username,
                                   email |-> doc.email])
    /\ UNCHANGED <<game_logs, clock, credited>>

\* ------------------------------------------------------------ log_game_event
\* the document log_game_event inserts into game_logs
EventLog(user_id, event_type, event_data) ==
    [user_id |-> user_id, event_type |-> event_type, event_data |-> event_data,
     timestamp |-> clock, created_at |-> clock]

\* what log_game_event returns after insert_one; the log id is the position
LogResult(op) == [op |-> op, outcome |-> "success", log_id |-> Len(game_logs) + 1]

DirectEvents == { [event_type |-> "loss", event_data |-> [reason |-> "timeout"]] }

\* a mutation of the append: the event is logged only for a stored player
LogGameEventChecked(c, user_id, ev) ==
    /\ pc[c] = "idle"
    /\ Room(1)
    /\ IF user_id = InvalidId
       THEN /\ Return(c, [op |-> "log_game_event", outcome |-> "error", error |-> "InvalidId"])
            /\ UNCHANGED game_logs
       ELSE IF user_id \notin DOMAIN users
       THEN /\ Return(c, [op |-> "log_game_event", outcome |-> "not_found"])
            /\ UNCHANGED game_logs
       ELSE /\ game_logs' = Append(game_logs,
                                   EventLog(user_id, ev.event_type, ev.event_data))
            /\ Return(c, LogResult("log_game_event"))
    /\ UNCHANGED <<users, nextId, clock, credited>>

LogGameEvent(c, user_id, ev) ==
    /\ pc[c] = "idle"
    /\ Room(1)
    /\ IF user_id = InvalidId
       THEN \* ObjectId(user_id) raises, caught by `except Exception`
            /\ Return(c, [op |-> "log_game_event", outcome |-> "error", error |-> "InvalidId"])
            /\ UNCHANGED game_logs
       ELSE /\ game_logs' = Append(game_logs,
                                   EventLog(user_id, ev.event_type, ev.event_data))
            /\ Return(c, LogResult("log_game_event"))
    /\ UNCHANGED <<users, nextId, clock, credited>>

\* ------------------------------------------------------------ get_number_of_wins
\* find_one by _id and user.get('wins', 0); 0 for a malformed id (the exception
\* handler) and for a player that is not stored
GetNumberOfWins(c, user_id) ==
    /\ pc[c] = "idle"
    /\ Return(c, [op |-> "get_number_of_wins", user_id |-> user_id,
                  wins |-> IF user_id # InvalidId /\ user_id \in DOMAIN users
                           THEN Get(users[user_id], "wins", 0)
                           ELSE 0])
    /\ UNCHANGED <<users, game_logs, nextId, clock, credited>>

\* ------------------------------------------------------------------- add_win
\* a mutation of the read: the `if not user` check left out
AddWinFindOneUnchecked(c, user_id, game_type, points, outer, args, result) ==
    /\ IF user_id = InvalidId
       THEN Return(c, IF outer = "add_win"
                      THEN [op |-> "add_win", outcome |-> "error", error |-> "InvalidId"]
                      ELSE result)
       ELSE /\ pc' = [pc EXCEPT ![c] = "aw_update"]
            /\ loc' = [loc EXCEPT ![c] =
                         [outer |-> outer, user_id |-> user_id, args |-> args,
                          game_type |-> game_type, points |-> points,
                          current_wins |-> 0, current_points |-> 0,
                          now |-> clock, result |-> result]]
            /\ ret' = NoRet
    /\ UNCHANGED <<users, game_logs, nextId, clock, credited>>

\* find_one in add_win and the building of update_data: the read of the
\* read-modify-write, and the reading of the clock that the write will carry
AddWinFindOne(c, user_id, game_type, points, outer, args, result) ==
    /\ IF user_id = InvalidId
       THEN \* ObjectId(user_id) raises, caught by add_win's `except Exception`
            Return(c, IF outer = "add_win"
                      THEN [op |-> "add_win", outcome |-> "error", error |-> "InvalidId"]
                      ELSE result)
       ELSE IF user_id \notin DOMAIN users
       THEN Return(c, IF outer = "add_win"
                      THEN [op |-> "add_win", outcome |-> "not_found"]
                      ELSE result)
       ELSE /\ pc' = [pc EXCEPT ![c] = "aw_update"]
            /\ loc' = [loc EXCEPT ![c] =
                         [outer |-> outer, user_id |-> user_id, args |-> args,
                          game_type |-> game_type, points |-> points,
                          current_wins |-> Get(users[user_id], "wins", 0),
                          current_points |-> Get(users[user_id], "total_points", 0),
                          now |-> clock,  \* utcnow() in update_data, before the write
                          result |-> result]]
            /\ ret' = NoRet
    /\ UNCHANGED <<users, game_logs, nextId, clock, credited>>

\* a call of add_win from outside
AddWin(c, user_id, game_type, points) ==
    /\ pc[c] = "idle"
    /\ Room(1)
    /\ AddWinFindOne(c, user_id, game_type, points, "add_win", NoArgs, NoRet)

\* add_win called by log_riddle_attempt or log_treasure_found
AddWinNested(c) ==
    /\ pc[c] = "aw_find"
    /\ AddWinFindOne(c, loc[c].user_id, loc[c].game_type, loc[c].points,
                     loc[c].outer, loc[c].args, loc[c].result)

\* update_data of add_win, applied with $set: the values computed from the read
WriteBack(doc, l) ==
    SetFields(doc, [wins |-> l.current_wins + 1,
                    total_points |-> l.current_points + l.points,
                    updated_at |-> l.now])

\* a mutation of the write: the win event is inserted along with it
AddWinUpdateOneLogging(c) ==
    /\ pc[c] = "aw_update"
    /\ users' = IF loc[c].user_id \in DOMAIN users
                THEN [users EXCEPT ![loc[c].user_id] = WriteBack(@, loc[c])]
                ELSE users
    /\ game_logs' = Append(game_logs, EventLog(loc[c].user_id, "win", NoArgs))
    /\ pc' = [pc EXCEPT ![c] = "aw_log"]
    /\ ret' = NoRet
    /\ UNCHANGED <<nextId, clock, loc, credited>>

\* update_one in add_win: the write of the read-modify-write
AddWinUpdateOne(c) ==
    /\ pc[c] = "aw_update"
    /\ users' = IF loc[c].user_id \in DOMAIN users
                THEN [users EXCEPT ![loc[c].user_id] = WriteBack(@, loc[c])]
                ELSE users
    \* `result` of update_one: add_win never looks at its matched_count
    /\ loc' = [loc EXCEPT ![c] =
                 SetFields(@, [matched_count |->
                                  IF loc[c].user_id \in DOMAIN users THEN 1 ELSE 0])]
    /\ pc' = [pc EXCEPT ![c] = "aw_log"]
    /\ ret' = NoRet
    /\ UNCHANGED <<game_logs, nextId, clock, credited>>

\* log_game_event(user_id, "win", ...) in add_win, and the return
AddWinLogEvent(c) ==
    /\ pc[c] = "aw_log"
    /\ LET l == loc[c] IN
        /\ game_logs' = Append(game_logs,
               EventLog(l.user_id, "win",
                   [game_type |-> l.game_type, points_earned |-> l.points,
                    total_wins |-> l.current_wins + 1,
                    total_points |-> l.current_points + l.points]))
        /\ credited' = [credited EXCEPT ![l.user_id] =
                           [n |-> @.n + 1, sum |-> @.sum + l.points]]
        /\ Return(c, IF l.outer = "add_win"
                     THEN [op |-> "add_win", outcome |-> "success",
                           user_id |-> l.user_id,
                           new_wins_count |-> l.current_wins + 1,
                           new_total_points |-> l.current_points + l.points,
                           points_earned |-> l.points]
                     ELSE l.result)
    /\ UNCHANGED <<users, nextId, clock>>

\* -------------------------------------------------------- log_riddle_attempt
Max(a, b) == IF a >= b THEN a ELSE b

\* int(time_taken) for a time given in tenths of a second: truncation toward zero
IntOf(tenths) == IF tenths >= 0 THEN tenths \div 10 ELSE -((-tenths) \div 10)

\* points = max(10, 50 - int(time_taken))
RiddlePoints(time_taken) == Max(10, 50 - IntOf(time_taken))

\* a mutation of the branch: add_win whatever the answer was
WinDueAlways(is_correct) == TRUE

\* `if is_correct:` decides whether add_win is called
WinDue(is_correct) == is_correct

\* the locals a game-activity method holds while its add_win runs
ActivityLocals(outer, user_id, args, game_type, points, result) ==
    [outer |-> outer, user_id |-> user_id, args |-> args,
     game_type |-> game_type, points |-> points, result |-> result]

\* log_riddle_attempt up to and including its log_game_event
LogRiddleAttempt(c, user_id, riddle, is_correct, time_taken) ==
    /\ pc[c] = "idle"
    /\ Room(IF is_correct THEN 2 ELSE 1)
    /\ IF user_id = InvalidId
       THEN \* log_game_event and add_win both fail on ObjectId(user_id)
            /\ Return(c, [op |-> "log_riddle_attempt", outcome |-> "error", error |-> "InvalidId"])
            /\ UNCHANGED game_logs
       ELSE /\ game_logs' = Append(game_logs,
                    EventLog(user_id, "riddle_attempt",
                        [riddle_id |-> riddle.riddle_id,
                         location |-> riddle.location,
                         is_correct |-> is_correct,
                         time_taken |-> time_taken,
                         timestamp |-> clock]))
            /\ IF WinDue(is_correct)
               THEN /\ pc' = [pc EXCEPT ![c] = "aw_find"]
                    /\ loc' = [loc EXCEPT ![c] =
                                 ActivityLocals("log_riddle_attempt", user_id,
                                     [riddle |-> riddle, is_correct |-> is_correct,
                                      time_taken |-> time_taken],
                                     "riddle_solved", RiddlePoints(time_taken),
                                     LogResult("log_riddle_attempt"))]
                    /\ ret' = NoRet
               ELSE Return(c, LogResult("log_riddle_attempt"))
    /\ UNCHANGED <<users, nextId, clock, credited>>

\* -------------------------------------------------------- log_treasure_found
\* the fixed reward of a treasure
TreasurePoints == 25

\* log_treasure_found up to and including its log_game_event
LogTreasureFound(c, user_id, treasure) ==
    /\ pc[c] = "idle"
    /\ Room(2)
    /\ IF user_id = InvalidId
       THEN /\ Return(c, [op |-> "log_treasure_found", outcome |-> "error", error |-> "InvalidId"])
            /\ UNCHANGED game_logs
       ELSE /\ game_logs' = Append(game_logs,
                    EventLog(user_id, "treasure_found",
                        [treasure_id |-> treasure.treasure_id,
                         location |-> treasure.location,
                         coordinates |-> treasure.coordinates,
                         timestamp |-> clock]))
            /\ pc' = [pc EXCEPT ![c] = "aw_find"]
            /\ loc' = [loc EXCEPT ![c] =
                         ActivityLocals("log_treasure_found", user_id, treasure,
                             "treasure_found", TreasurePoints,
                             LogResult("log_treasure_found"))]
            /\ ret' = NoRet
    /\ UNCHANGED <<users, nextId, clock, credited>>

\* --------------------------------------------------------------- delete_user
\* a mutation of the delete: the player's game_logs removed with the player
DeleteUserCascade(c, user_id) ==
    /\ pc[c] = "idle"
    /\ IF user_id = InvalidId
       THEN /\ Return(c, [op |-> "delete_user", outcome |-> "error", error |-> "InvalidId"])
            /\ UNCHANGED <<users, game_logs>>
       ELSE IF user_id \notin DOMAIN users
       THEN /\ Return(c, [op |-> "delete_user", outcome |-> "not_found"])
            /\ UNCHANGED <<users, game_logs>>
       ELSE /\ users' = [u \in DOMAIN users \ {user_id} |-> users[u]]
            /\ game_logs' = SelectSeq(game_logs, LAMBDA e : e.user_id # user_id)
            /\ Return(c, [op |-> "delete_user", outcome |-> "success",
                          deleted_count |-> 1])
    /\ UNCHANGED <<nextId, clock, credited>>

DeleteUser(c, user_id) ==
    /\ pc[c] = "idle"
    /\ IF user_id = InvalidId
       THEN /\ Return(c, [op |-> "delete_user", outcome |-> "error", error |-> "InvalidId"])
            /\ UNCHANGED users
       ELSE IF user_id \notin DOMAIN users
       THEN /\ Return(c, [op |-> "delete_user", outcome |-> "not_found"])
            /\ UNCHANGED users
       ELSE /\ users' = [u \in DOMAIN users \ {user_id} |-> users[u]]
            /\ Return(c, [op |-> "delete_user", outcome |-> "success",
                          deleted_count |-> 1])
    /\ UNCHANGED <<game_logs, nextId, clock, credited>>

\* --------------------------------------------------- delete_user_by_email
\* the documents a filter on one field matches, and the one update_one or
\* delete_one takes: the first in the collection's order
MatchesOn(field, value) ==
    {u \in DOMAIN users : field \in DOMAIN users[u] /\ users[u][field] = value}

FirstOf(ids) == CHOOSE u \in ids : \A v \in ids : u <= v

\* a mutation of the delete: the document flagged inactive and kept
DeleteUserByEmailSoft(c, email) ==
    /\ pc[c] = "idle"
    /\ LET m == MatchesOn("email", email) IN
        IF m = {}
        THEN /\ Return(c, [op |-> "delete_user_by_email", outcome |-> "not_found"])
             /\ UNCHANGED users
        ELSE /\ users' = [users EXCEPT ![FirstOf(m)] = SetFields(@, [is_active |-> FALSE])]
             /\ Return(c, [op |-> "delete_user_by_email", outcome |-> "success",
                           deleted_count |-> 1])
    /\ UNCHANGED <<game_logs, nextId, clock, credited>>

DeleteUserByEmail(c, email) ==
    /\ pc[c] = "idle"
    /\ LET m == MatchesOn("email", email) IN
        IF m = {}
        THEN /\ Return(c, [op |-> "delete_user_by_email", outcome |-> "not_found"])
             /\ UNCHANGED users
        ELSE /\ users' = [u \in DOMAIN users \ {FirstOf(m)} |-> users[u]]
             /\ Return(c, [op |-> "delete_user_by_email", outcome |-> "success",
                           deleted_count |-> 1])
    /\ UNCHANGED <<game_logs, nextId, clock, credited>>

\* --------------------------------------------------------------- update_user
\* a mutation of the patch: `_id` and `created_at` left in it
UpdateDataUnstripped(update_data) ==
    SetFields(update_data, [updated_at |-> clock])

\* update_data after `updated_at` is stamped and `_id`, `created_at` are popped
UpdateData(update_data) ==
    LET stamped == SetFields(update_data, [updated_at |-> clock])
    IN  [f \in DOMAIN stamped \ {"_id", "created_at"} |-> stamped[f]]

\* a mutation of the update: the `matched_count == 0` check left out
UpdateOneUnchecked(c, op, m, update_data) ==
    IF m = {}
    THEN /\ Return(c, [op |-> op, outcome |-> "success", modified_count |-> 0])
         /\ UNCHANGED users
    ELSE LET u == FirstOf(m)
             doc == SetFields(users[u], UpdateData(update_data))
         IN  IF DuplicateKey(doc, u)
             THEN /\ Return(c, [op |-> op, outcome |-> "error",
                                error |-> "DuplicateKeyError"])
                  /\ UNCHANGED users
             ELSE /\ users' = [users EXCEPT ![u] = doc]
                  /\ Return(c, [op |-> op, outcome |-> "success",
                                modified_count |-> IF doc = users[u] THEN 0 ELSE 1])

\* update_one(filter, {"$set": ...}) on the matched documents `m`, and what
\* update_user / update_user_by_email make of its result
UpdateOne(c, op, m, update_data) ==
    IF m = {}
    THEN /\ Return(c, [op |-> op, outcome |-> "not_found"])
         /\ UNCHANGED users
    ELSE LET u == FirstOf(m)
             doc == SetFields(users[u], UpdateData(update_data))
         IN  IF DuplicateKey(doc, u)
             THEN \* DuplicateKeyError, caught by `except Exception`
                  /\ Return(c, [op |-> op, outcome |-> "error",
                                error |-> "DuplicateKeyError"])
                  /\ UNCHANGED users
             ELSE /\ users' = [users EXCEPT ![u] = doc]
                  /\ Return(c, [op |-> op, outcome |-> "success",
                                modified_count |-> IF doc = users[u] THEN 0 ELSE 1])

UpdateUser(c, user_id, update_data) ==
    /\ pc[c] = "idle"
    /\ IF user_id = InvalidId
       THEN /\ Return(c, [op |-> "update_user", outcome |-> "error",
                          error |-> "InvalidId"])
            /\ UNCHANGED users
       ELSE UpdateOne(c, "update_user", DOMAIN users \cap {user_id}, update_data)
    /\ UNCHANGED <<game_logs, nextId, clock, credited>>

UpdateUserByEmail(c, email, update_data) ==
    /\ pc[c] = "idle"
    /\ UpdateOne(c, "update_user_by_email", MatchesOn("email", email), update_data)
    /\ UNCHANGED <<game_logs, nextId, clock, credited>>

\* deactivate_user: update_user(user_id, {"is_active": False})
DeactivateUser(c, user_id) == UpdateUser(c, user_id, [is_active |-> FALSE])

\* a mutation of activate_user: the patch also resets the win counter
ActivateUserResetting(c, user_id) ==
    UpdateUser(c, user_id, [is_active |-> TRUE, wins |-> 0])

\* activate_user: update_user(user_id, {"is_active": True})
ActivateUser(c, user_id) == UpdateUser(c, user_id, [is_active |-> TRUE])

\* ---------------------------------------- get_user_by_id, get_user_by_username
\* what a get returns: the document with its _id as a string, or None
Found(op, user_id) ==
    [op |-> op, found |-> TRUE, user |-> SetFields(users[user_id], [_id |-> user_id])]

NotFound(op) == [op |-> op, found |-> FALSE]

\* a mutation of the read: the lookup stamps the document it returns
GetUserByIdStamping(c, user_id) ==
    /\ pc[c] = "idle"
    /\ IF user_id = InvalidId \/ user_id \notin DOMAIN users
       THEN /\ Return(c, NotFound("get_user_by_id") @@ [user_id |-> user_id])
            /\ UNCHANGED users
       ELSE /\ Return(c, Found("get_user_by_id", user_id) @@ [user_id |-> user_id])
            /\ users' = [users EXCEPT ![user_id] = SetFields(@, [last_seen |-> clock])]
    /\ UNCHANGED <<game_logs, nextId, clock, credited>>

GetUserById(c, user_id) ==
    /\ pc[c] = "idle"
    /\ IF user_id = InvalidId \/ user_id \notin DOMAIN users
       THEN \* ObjectId(user_id) raising and find_one finding nothing both give None
            Return(c, NotFound("get_user_by_id") @@ [user_id |-> user_id])
       ELSE Return(c, Found("get_user_by_id", user_id) @@ [user_id |-> user_id])
    /\ UNCHANGED <<users, game_logs, nextId, clock, credited>>

GetUserByEmail(c, email) ==
    /\ pc[c] = "idle"
    /\ LET m == MatchesOn("email", email) IN
        IF m = {}
        THEN Return(c, NotFound("get_user_by_email") @@ [email |-> email])
        ELSE Return(c, Found("get_user_by_email", FirstOf(m)) @@ [email |-> email])
    /\ UNCHANGED <<users, game_logs, nextId, clock, credited>>

GetUserByUsername(c, username) ==
    /\ pc[c] = "idle"
    /\ LET m == MatchesOn("username", username) IN
        IF m = {}
        THEN Return(c, NotFound("get_user_by_username") @@ [username |-> username])
        ELSE Return(c, Found("get_user_by_username", FirstOf(m)) @@ [username |-> username])
    /\ UNCHANGED <<users, game_logs, nextId, clock, credited>>

\* ------------------------------------- get_user_count, get_active_users_count
GetUserCount(c) ==
    /\ pc[c] = "idle"
    /\ Return(c, [op |-> "get_user_count", count |-> Cardinality(DOMAIN users)])
    /\ UNCHANGED <<users, game_logs, nextId, clock, credited>>

\* a mutation of the filter: every document matches
AllPlayers == DOMAIN users

\* the documents the filter {"is_active": True} matches
ActivePlayers ==
    {u \in DOMAIN users : "is_active" \in DOMAIN users[u] /\ users[u].is_active = TRUE}

GetActiveUsersCount(c) ==
    /\ pc[c] = "idle"
    /\ Return(c, [op |-> "get_active_users_count", count |-> Cardinality(ActivePlayers)])
    /\ UNCHANGED <<users, game_logs, nextId, clock, credited>>

\* ------------------------------------------------------------- get_user_rank
\* a mutation of the count: {"$gte": user_points}
HigherRankedGte(user_points) ==
    Cardinality({u \in DOMAIN users :
        /\ "total_points" \in DOMAIN users[u]
        /\ users[u].total_points >= user_points})

\* count_documents({"total_points": {"$gt": user_points}}): a document
\* without the field matches no comparison
HigherRanked(user_points) ==
    Cardinality({u \in DOMAIN users :
        /\ "total_points" \in DOMAIN users[u]
        /\ users[u].total_points > user_points})

\* get_user_rank up to and including its find_one
GetUserRankFindOne(c, user_id) ==
    /\ pc[c] = "idle"
    /\ IF user_id = InvalidId \/ user_id \notin DOMAIN users
       THEN \* the exception handler and `if not user` both return 0
            Return(c, [op |-> "get_user_rank", user_id |-> user_id, rank |-> 0])
       ELSE /\ pc' = [pc EXCEPT ![c] = "rank_count"]
            /\ loc' = [loc EXCEPT ![c] =
                         [outer |-> "get_user_rank", user_id |-> user_id,
                          user_points |-> Get(users[user_id], "total_points", 0)]]
            /\ ret' = NoRet
    /\ UNCHANGED <<users, game_logs, nextId, clock, credited>>

\* a mutation of the return: the count itself, without the `+ 1`
GetUserRankCountZeroBased(c) ==
    /\ pc[c] = "rank_count"
    /\ Return(c, [op |-> "get_user_rank", user_id |-> loc[c].user_id,
                  rank |-> HigherRanked(loc[c].user_points)])
    /\ UNCHANGED <<users, game_logs, nextId, clock, credited>>

\* count_documents in get_user_rank, and the return
GetUserRankCount(c) ==
    /\ pc[c] = "rank_count"
    /\ Return(c, [op |-> "get_user_rank", user_id |-> loc[c].user_id,
                  rank |-> HigherRanked(loc[c].user_points) + 1])
    /\ UNCHANGED <<users, game_logs, nextId, clock, credited>>

\* ----------------------------------------------------------- get_leaderboard
\* sort("total_points", -1): u may come before v; a missing field sorts as
\* null, below every number
SortsBefore(u, v) ==
    \/ "total_points" \notin DOMAIN users[v]
    \/ /\ "total_points" \in DOMAIN users[u]
       /\ users[u].total_points >= users[v].total_points

\* every order the sort may return: ties come in any order
RECURSIVE SortedDescending(_)
SortedDescending(ids) ==
    IF ids = {} THEN {<<>>}
    ELSE UNION { { <<m>> \o rest : rest \in SortedDescending(ids \ {m}) } :
                 m \in {u \in ids : \A v \in ids : SortsBefore(u, v)} }

\* cursor.limit(limit): a limit of 0 is no limit
Limit(docs, limit) ==
    IF limit = 0 \/ limit >= Len(docs) THEN docs ELSE SubSeq(docs, 1, limit)

\* a mutation of the entry: the position computed by the rank formula
LeaderboardEntryRanked(i, u) ==
    [rank |-> HigherRanked(Get(users[u], "total_points", 0)) + 1, user_id |-> u,
     username |-> Get(users[u], "username", "Unknown"),
     total_points |-> Get(users[u], "total_points", 0),
     wins |-> Get(users[u], "wins", 0),
     first_name |-> Get(users[u], "first_name", ""),
     last_name |-> Get(users[u], "last_name", "")]

\* one leaderboard entry, built by enumerate(top_players, 1)
LeaderboardEntry(i, u) ==
    [rank |-> i, user_id |-> u,
     username |-> Get(users[u], "username", "Unknown"),
     total_points |-> Get(users[u], "total_points", 0),
     wins |-> Get(users[u], "wins", 0),
     first_name |-> Get(users[u], "first_name", ""),
     last_name |-> Get(users[u], "last_name", "")]

GetLeaderboard(c, limit) ==
    /\ pc[c] = "idle"
    /\ \E order \in SortedDescending(ActivePlayers) :
         LET top_players == Limit(order, limit)
         IN  Return(c, [op |-> "get_leaderboard", limit |-> limit,
                        leaderboard |-> [i \in 1..Len(top_players) |->
                                            LeaderboardEntry(i, top_players[i])]])
    /\ UNCHANGED <<users, game_logs, nextId, clock, credited>>

\* ------------------- get_user_riddle_history, get_user_treasure_history
\* find({"user_id": ..., "event_type": ...}): positions of the matching events
EventsOf(user_id, event_type) ==
    {i \in 1..Len(game_logs) :
        game_logs[i].user_id = user_id /\ game_logs[i].event_type = event_type}

\* sort("timestamp", -1): every order the sort may return, equal timestamps
\* in any order
RECURSIVE NewestFirst(_)
NewestFirst(events) ==
    IF events = {} THEN {<<>>}
    ELSE UNION { { <<m>> \o rest : rest \in NewestFirst(events \ {m}) } :
                 m \in {i \in events : \A j \in events :
                            game_logs[i].timestamp >= game_logs[j].timestamp} }

\* the entry get_user_riddle_history builds from a log
RiddleEntry(log) ==
    [riddle_id |-> log.event_data.riddle_id,
     location |-> log.event_data.location,
     is_correct |-> log.event_data.is_correct,
     time_taken |-> log.event_data.time_taken,
     timestamp |-> log.timestamp]

\* the entry get_user_treasure_history builds from a log
TreasureEntry(log) ==
    [treasure_id |-> log.event_data.treasure_id,
     location |-> log.event_data.location,
     coordinates |-> log.event_data.coordinates,
     timestamp |-> log.timestamp]

GetUserRiddleHistory(c, user_id, limit) ==
    /\ pc[c] = "idle"
    /\ IF user_id = InvalidId
       THEN \* ObjectId(user_id) raises: the handler returns []
            Return(c, [op |-> "get_user_riddle_history", user_id |-> user_id,
                       limit |-> limit, history |-> <<>>])
       ELSE \E order \in NewestFirst(EventsOf(user_id, "riddle_attempt")) :
              LET riddle_logs == Limit(order, limit)
              IN  Return(c, [op |-> "get_user_riddle_history", user_id |-> user_id,
                             limit |-> limit,
                             history |-> [i \in 1..Len(riddle_logs) |->
                                             RiddleEntry(game_logs[riddle_logs[i]])]])
    /\ UNCHANGED <<users, game_logs, nextId, clock, credited>>

GetUserTreasureHistory(c, user_id, limit) ==
    /\ pc[c] = "idle"
    /\ IF user_id = InvalidId
       THEN Return(c, [op |-> "get_user_treasure_history", user_id |-> user_id,
                       limit |-> limit, history |-> <<>>])
       ELSE \E order \in NewestFirst(EventsOf(user_id, "treasure_found")) :
              LET treasure_logs == Limit(order, limit)
              IN  Return(c, [op |-> "get_user_treasure_history", user_id |-> user_id,
                             limit |-> limit,
                             history |-> [i \in 1..Len(treasure_logs) |->
                                             TreasureEntry(game_logs[treasure_logs[i]])]])
    /\ UNCHANGED <<users, game_logs, nextId, clock, credited>>

\* ------------------------------------------------ get_all_users, search_users
\* find() without a sort returns the documents in the collection's natural
\* order: the order of insertion here, where no write moves a document
RECURSIVE NaturalOrder(_)
NaturalOrder(ids) ==
    IF ids = {} THEN <<>>
    ELSE <<FirstOf(ids)>> \o NaturalOrder(ids \ {FirstOf(ids)})

\* the documents as the list methods return them, `_id` as a string
UserList(ids) == [i \in 1..Len(ids) |-> SetFields(users[ids[i]], [_id |-> ids[i]])]

\* cursor.skip(skip)
Skip(docs, skip) == SubSeq(docs, skip + 1, Len(docs))

GetAllUsers(c, limit, skip) ==
    /\ pc[c] = "idle"
    /\ IF skip < 0
       THEN \* cursor.skip raises ValueError, caught by `except Exception`
            Return(c, [op |-> "get_all_users", limit |-> limit, skip |-> skip,
                       users |-> <<>>, logged |-> "ValueError"])
       ELSE Return(c, [op |-> "get_all_users", limit |-> limit, skip |-> skip,
                       users |-> UserList(Limit(Skip(NaturalOrder(DOMAIN users), skip),
                                                limit))])
    /\ UNCHANGED <<users, game_logs, nextId, clock, credited>>

\* the documents a query of equalities matches
Matches(query) ==
    {u \in DOMAIN users :
        \A f \in DOMAIN query : f \in DOMAIN users[u] /\ users[u][f] = query[f]}

SearchUsers(c, query, limit) ==
    /\ pc[c] = "idle"
    /\ Return(c, [op |-> "search_users", query |-> query, limit |-> limit,
                  users |-> UserList(Limit(NaturalOrder(Matches(query)), limit))])
    /\ UNCHANGED <<users, game_logs, nextId, clock, credited>>

\* ------------------------------------------------------------ store failures
\* what find_one, find, count_documents and insert_one raise once the server
\* cannot be reached (serverSelectionTimeoutMS=5000)
StoreFailure == "ServerSelectionTimeoutError"

\* a mutation of the handlers: the exception is raised on to the caller
ExceptReraising(c, result) ==
    /\ pc[c] = "idle"
    /\ Return(c, [op |-> result.op, raised |-> StoreFailure])
    /\ UNCHANGED <<users, game_logs, nextId, clock, credited>>

\* `except Exception as e`: the handler writes e to the log, which the caller
\* does not see, and returns `result`
Except(c, result) ==
    /\ pc[c] = "idle"
    /\ Return(c, result @@ [logged |-> StoreFailure])
    /\ UNCHANGED <<users, game_logs, nextId, clock, credited>>

GetUserByIdExcept(c, user_id) ==
    Except(c, NotFound("get_user_by_id") @@ [user_id |-> user_id])

GetUserByEmailExcept(c, email) ==
    Except(c, NotFound("get_user_by_email") @@ [email |-> email])

GetUserByUsernameExcept(c, username) ==
    Except(c, NotFound("get_user_by_username") @@ [username |-> username])

GetAllUsersExcept(c, limit, skip) ==
    Except(c, [op |-> "get_all_users", limit |-> limit, skip |-> skip, users |-> <<>>])

SearchUsersExcept(c, query, limit) ==
    Except(c, [op |-> "search_users", query |-> query, limit |-> limit,
               users |-> <<>>])

GetUserCountExcept(c) == Except(c, [op |-> "get_user_count", count |-> 0])

GetLeaderboardExcept(c, limit) ==
    Except(c, [op |-> "get_leaderboard", limit |-> limit, leaderboard |-> <<>>])

GetUserRiddleHistoryExcept(c, user_id, limit) ==
    Except(c, [op |-> "get_user_riddle_history", user_id |-> user_id,
               limit |-> limit, history |-> <<>>])

GetUserTreasureHistoryExcept(c, user_id, limit) ==
    Except(c, [op |-> "get_user_treasure_history", user_id |-> user_id,
               limit |-> limit, history |-> <<>>])

\* create_user's `except Exception`: {'success': False, 'error': str(e), ...}
CreateUserExcept(c, user_data) ==
    Except(c, [op |-> "create_user", outcome |-> "error", error |-> StoreFailure])

\* ------------------------------------------------------- get_user_game_stats
\* list(game_logs.find({"user_id": ...})): the player's events, in the
\* collection's order
LogsOf(user_id) == SelectSeq(game_logs, LAMBDA log : log.user_id = user_id)

\* event_counts: per event type that occurs, how often it does
EventCounts(logs) ==
    [t \in {logs[i].event_type : i \in DOMAIN logs} |->
        Cardinality({i \in DOMAIN logs : logs[i].event_type = t})]

\* the sequence without its i-th element
Without(logs, i) == SubSeq(logs, 1, i - 1) \o SubSeq(logs, i + 1, Len(logs))

\* sorted(game_logs, key=lambda x: x['timestamp'], reverse=True): a stable
\* sort, events with equal timestamps keep the order they came in
RECURSIVE SortedNewestFirst(_)
SortedNewestFirst(logs) ==
    IF logs = <<>> THEN <<>>
    ELSE LET first == CHOOSE i \in DOMAIN logs :
                        /\ \A j \in DOMAIN logs : logs[i].timestamp >= logs[j].timestamp
                        /\ \A j \in 1..(i - 1) : logs[j].timestamp < logs[i].timestamp
         IN  <<logs[first]>> \o SortedNewestFirst(Without(logs, first))

\* the length of the slice [:10]
RecentLimit == 10

\* a mutation of the slice: the whole sorted list
RecentActivityUncapped(logs) ==
    LET recent_events == SortedNewestFirst(logs)
    IN  [i \in 1..Len(recent_events) |->
            [event_type |-> recent_events[i].event_type,
             timestamp |-> recent_events[i].timestamp,
             data |-> recent_events[i].event_data]]

\* recent_activity: the first RecentLimit events of the sorted list
RecentActivity(logs) ==
    LET sorted == SortedNewestFirst(logs)
        recent_events == IF Len(sorted) <= RecentLimit THEN sorted
                         ELSE SubSeq(sorted, 1, RecentLimit)
    IN  [i \in 1..Len(recent_events) |->
            [event_type |-> recent_events[i].event_type,
             timestamp |-> recent_events[i].timestamp,
             data |-> recent_events[i].event_data]]

\* get_user_game_stats up to and including its find_one on users
GetUserGameStatsFindOne(c, user_id) ==
    /\ pc[c] = "idle"
    /\ IF user_id = InvalidId
       THEN \* ObjectId(user_id) raises, caught by `except Exception`
            Return(c, [op |-> "get_user_game_stats", outcome |-> "error",
                       error |-> "InvalidId", user_id |-> user_id])
       ELSE IF user_id \notin DOMAIN users
       THEN Return(c, [op |-> "get_user_game_stats", outcome |-> "not_found",
                       user_id |-> user_id])
       ELSE /\ pc' = [pc EXCEPT ![c] = "stats_logs"]
            /\ loc' = [loc EXCEPT ![c] =
                         [outer |-> "get_user_game_stats", user_id |-> user_id,
                          username |-> Get(users[user_id], "username", "Unknown"),
                          total_wins |-> Get(users[user_id], "wins", 0),
                          total_points |-> Get(users[user_id], "total_points", 0)]]
            /\ ret' = NoRet
    /\ UNCHANGED <<users, game_logs, nextId, clock, credited>>

\* the find on game_logs, and the statistics computed from its result
GetUserGameStatsFind(c) ==
    /\ pc[c] = "stats_logs"
    /\ LET logs == LogsOf(loc[c].user_id) IN
        loc' = [loc EXCEPT ![c] =
                   loc[c] @@ [total_events |-> Len(logs),
                              event_breakdown |-> EventCounts(logs),
                              recent_activity |-> RecentActivity(logs)]]
    /\ pc' = [pc EXCEPT ![c] = "stats_rank"]
    /\ ret' = NoRet
    /\ UNCHANGED <<users, game_logs, nextId, clock, credited>>

\* what get_user_game_stats returns once get_user_rank has returned `rank`
GameStats(l, rank) ==
    [op |-> "get_user_game_stats", outcome |-> "success",
     user_id |-> l.user_id, username |-> l.username,
     total_wins |-> l.total_wins, total_points |-> l.total_points,
     total_events |-> l.total_events, event_breakdown |-> l.event_breakdown,
     recent_activity |-> l.recent_activity, rank |-> rank]

\* self.get_user_rank(user_id) in get_user_game_stats: its find_one
GetUserGameStatsRankFindOne(c) ==
    /\ pc[c] = "stats_rank"
    /\ IF loc[c].user_id \notin DOMAIN users
       THEN Return(c, GameStats(loc[c], 0))
       ELSE /\ pc' = [pc EXCEPT ![c] = "stats_count"]
            /\ loc' = [loc EXCEPT ![c] =
                         loc[c] @@ [user_points |->
                                       Get(users[loc[c].user_id], "total_points", 0)]]
            /\ ret' = NoRet
    /\ UNCHANGED <<users, game_logs, nextId, clock, credited>>

\* self.get_user_rank(user_id) in get_user_game_stats: its count_documents,
\* and the return of the statistics
GetUserGameStatsRankCount(c) ==
    /\ pc[c] = "stats_count"
    /\ Return(c, GameStats(loc[c], HigherRanked(loc[c].user_points) + 1))
    /\ UNCHANGED <<users, game_logs, nextId, clock, credited>>

\* ------------------------------------------------------------ specifications
\* the scoring and game-activity methods, run by caller c for the players
\* registered from `profiles`
Scoring(c, profiles) ==
    \/ \E p \in profiles : CreateUser(c, p)
    \/ \E u \in UserIdInputs, g \in GameTypes, p \in WinPoints : AddWin(c, u, g, p)
    \/ AddWinNested(c)
    \/ AddWinUpdateOne(c)
    \/ AddWinLogEvent(c)
    \/ \E u \in UserIdInputs, r \in Riddles, ok \in BOOLEAN, t \in TimesTaken :
            LogRiddleAttempt(c, u, r, ok, t)
    \/ \E u \in UserIdInputs, t \in Treasures : LogTreasureFound(c, u, t)

\* concurrent game clients, interleaved at the store's operations, playing as
\* the first test user
Next == \E c \in Callers : Scoring(c, {JohnDoe})

Spec == Init /\ [][Next]_vars

\* one client registering and playing both test users, with direct ledger
\* appends and hard deletes: every call runs to its return before the next
\* starts
SeqNext ==
    \/ Scoring("c1", DemoProfiles)
    \/ \E u \in UserIdInputs, e \in DirectEvents : LogGameEvent("c1", u, e)
    \/ \E u \in UserIdInputs : DeleteUser("c1", u)

SeqSpec == Init /\ [][SeqNext]_vars

\* one client registering, scoring (also with a negative `points`), editing
\* and deleting the first test user: the ledger next to every write path
NegativePoints == {-20}

\* main()'s profile edit, in a patch that also names another `_id` and a
\* later `created_at`
LedgerPatches ==
    { [_id |-> 2, created_at |-> 1, age |-> 26, location |-> "Boston, MA"] }

LedgerNext ==
    \E c \in {"c1"} :
        \/ CreateUser(c, JohnDoe)
        \/ \E u \in UserIdInputs, g \in GameTypes, p \in WinPoints \cup NegativePoints :
                AddWin(c, u, g, p)
        \/ AddWinUpdateOne(c)
        \/ AddWinLogEvent(c)
        \/ \E u \in UserIdInputs, e \in DirectEvents : LogGameEvent(c, u, e)
        \/ \E u \in UserIdInputs, d \in LedgerPatches : UpdateUser(c, u, d)
        \/ \E u \in UserIdInputs : DeactivateUser(c, u)
        \/ \E u \in UserIdInputs : ActivateUser(c, u)
        \/ \E u \in UserIdInputs : DeleteUser(c, u)

LedgerSpec == Init /\ [][LedgerNext]_vars

\* the identity store: registration, profile edits, soft and hard deletion
Usernames == {"john_doe", "jane_smith"}
Emails == {"john.doe@example.com", "jane.smith@example.com"}
Profiles ==
    { [username |-> n, email |-> e, first_name |-> "John", last_name |-> "Doe"] :
        n \in Usernames, e \in Emails }
    \cup { [username |-> "john_doe", email |-> "john.doe@example.com",
            first_name |-> "John"] }
    \cup { [username |-> "john_doe", email |-> "john.doe@example.com",
            last_name |-> "Doe"],
           [username |-> "john_doe", first_name |-> "John", last_name |-> "Doe"],
           [email |-> "john.doe@example.com", first_name |-> "John",
            last_name |-> "Doe"] }
Patches ==
    { [username |-> n] : n \in Usernames }
    \cup { [email |-> e] : e \in Emails }
    \cup { [age |-> 26, location |-> "Boston, MA"] }
    \cup { [wins |-> 3, total_points |-> 1000] }

\* every method here is a single operation of the store, so concurrent callers
\* interleave exactly as one caller's calls follow one another
IdentityNext ==
    \E c \in {"c1"} :
        \/ \E p \in Profiles : CreateUser(c, p)
        \/ \E u \in UserIdInputs, d \in Patches : UpdateUser(c, u, d)
        \/ \E e \in Emails, d \in Patches : UpdateUserByEmail(c, e, d)
        \/ \E u \in UserIdInputs : DeactivateUser(c, u)
        \/ \E u \in UserIdInputs : ActivateUser(c, u)
        \/ \E u \in UserIdInputs : DeleteUser(c, u)
        \/ \E e \in Emails : DeleteUserByEmail(c, e)

IdentitySpec == Init /\ [][IdentityNext]_vars

\* retries: one client registering the two test users, editing, deactivating,
\* reactivating and deleting them, any call any number of times
RetryPatches ==
    { [age |-> 26, location |-> "Boston, MA"], [username |-> "jane_smith"] }

RetryNext ==
    \E c \in {"c1"} :
        \/ \E p \in DemoProfiles : CreateUser(c, p)
        \/ \E u \in UserIdInputs, d \in RetryPatches : UpdateUser(c, u, d)
        \/ \E u \in UserIdInputs : DeactivateUser(c, u)
        \/ \E u \in UserIdInputs : ActivateUser(c, u)
        \/ \E u \in UserIdInputs : DeleteUser(c, u)

RetrySpec == Init /\ [][RetryNext]_vars

\* hard deletion and the lookups after it: one client registering the two
\* test users, deleting them by id or by email, and looking them up
DeleteNext ==
    \E c \in {"c1"} :
        \/ \E p \in DemoProfiles : CreateUser(c, p)
        \/ \E u \in UserIdInputs : DeleteUser(c, u)
        \/ \E e \in Emails : DeleteUserByEmail(c, e)
        \/ \E u \in UserIdInputs : GetUserById(c, u)
        \/ \E e \in Emails : GetUserByEmail(c, e)
        \/ \E n \in Usernames : GetUserByUsername(c, n)

DeleteSpec == Init /\ [][DeleteNext]_vars

\* soft deletion and the reads that see it: one client registering the two
\* test users, deactivating and reactivating them, and reading
SoftDeleteNext ==
    \E c \in {"c1"} :
        \/ \E p \in DemoProfiles : CreateUser(c, p)
        \/ \E u \in UserIdInputs : DeactivateUser(c, u)
        \/ \E u \in UserIdInputs : ActivateUser(c, u)
        \/ \E u \in UserIdInputs : GetUserById(c, u)
        \/ \E n \in Usernames : GetUserByUsername(c, n)
        \/ GetUserCount(c)
        \/ GetActiveUsersCount(c)
        \/ \E limit \in 0..MaxLimit : GetLeaderboard(c, limit)

SoftDeleteSpec == Init /\ [][SoftDeleteNext]_vars

\* the ranking reads over a populated store: RankPlayers registered players,
\* each of which has either no win yet or one add_win of 50, 80 or 100 points,
\* and may have been deactivated
RankIds == 1..RankPlayers
RankPoints == {50, 80, 100}
NoWin == 0

RankProfile(u) ==
    [username |-> "player" \o ToString(u),
     email |-> "player" \o ToString(u) \o "@example.com",
     first_name |-> "Player", last_name |-> ToString(u),
     created_at |-> 0, updated_at |-> 0]

RankDoc(u, points, active) ==
    IF points = NoWin
    THEN RankProfile(u) @@ [is_active |-> active]
    ELSE RankProfile(u) @@ [is_active |-> active, wins |-> 1, total_points |-> points]

\* the win events of the add_win calls behind `won`, in id order
RECURSIVE RankLogs(_, _)
RankLogs(won, u) ==
    IF u = 0 THEN <<>>
    ELSE IF won[u] = NoWin THEN RankLogs(won, u - 1)
    ELSE Append(RankLogs(won, u - 1),
                [user_id |-> u, event_type |-> "win",
                 event_data |-> [game_type |-> "treasure_hunt",
                                 points_earned |-> won[u],
                                 total_wins |-> 1, total_points |-> won[u]],
                 timestamp |-> 0, created_at |-> 0])

RankInit ==
    \E won \in [RankIds -> RankPoints \cup {NoWin}], active \in [RankIds -> BOOLEAN] :
        \* neither read looks at the order of the ids, so the players are
        \* numbered by score
        /\ \A u \in RankIds \ {RankPlayers} : won[u] >= won[u + 1]
        /\ users = [u \in RankIds |-> RankDoc(u, won[u], active[u])]
        /\ game_logs = RankLogs(won, RankPlayers)
        /\ nextId = RankPlayers + 1
        /\ clock = 0
        /\ pc = [c \in Callers |-> "idle"]
        /\ loc = [c \in Callers |-> NoLoc]
        /\ ret = NoRet
        /\ credited = [u \in RankIds |->
                         IF won[u] = NoWin THEN [n |-> 0, sum |-> 0]
                         ELSE [n |-> 1, sum |-> won[u]]]

RankIdInputs == RankIds \cup {InvalidId, RankPlayers + 1}

RankNext ==
    \E c \in {"c1"} :
        \/ \E u \in RankIdInputs : GetUserRankFindOne(c, u)
        \/ GetUserRankCount(c)
        \/ \E limit \in 0..MaxLimit : GetLeaderboard(c, limit)
        \/ \E u \in RankIdInputs : GetUserById(c, u)

RankSpec == RankInit /\ [][RankNext]_vars

\* the history reads over a ledger of HistoryEvents game activities of
\* unregistered player ids (log_game_event does not look the player up, and
\* add_win then returns 'User not found'): wrong riddle answers and treasure
\* finds, logged at non-decreasing readings of the clock
ActivityKinds == {"riddle_attempt", "treasure_found"}

\* the two player ids of the ledger, and the ids the histories are asked for
HistoryPlayers == {1, 2}

HistoryIdInputs == HistoryPlayers \cup {InvalidId}

ActivityEvent(user_id, kind, n, time) ==
    [user_id |-> user_id, event_type |-> kind,
     event_data |->
        IF kind = "riddle_attempt"
        THEN [riddle_id |-> "riddle_001", location |-> "Physical Science Building",
              is_correct |-> FALSE, time_taken |-> 600 + n, timestamp |-> time]
        ELSE [treasure_id |-> "treasure_001", location |-> "Physical Science Building",
              coordinates |-> [latitude |-> 424483579, longitude |-> -764800221],
              timestamp |-> time],
     timestamp |-> time, created_at |-> time]

HistoryInit ==
    \E who \in [1..HistoryEvents -> HistoryPlayers],
       kind \in [1..HistoryEvents -> ActivityKinds],
       time \in [1..HistoryEvents -> 1..HistoryEvents] :
        /\ \A n \in 1..HistoryEvents :
             time[n] \in (IF n = 1 THEN {1} ELSE {time[n - 1], time[n - 1] + 1})
        /\ game_logs = [n \in 1..HistoryEvents |->
                           ActivityEvent(who[n], kind[n], n, time[n])]
        /\ clock = time[HistoryEvents]
        /\ users = <<>>
        /\ nextId = 1
        /\ pc = [c \in Callers |-> "idle"]
        /\ loc = [c \in Callers |-> NoLoc]
        /\ ret = NoRet
        /\ credited = [u \in ObjectIds |-> [n |-> 0, sum |-> 0]]

HistoryNext ==
    \E c \in {"c1"}, u \in HistoryIdInputs, limit \in 0..MaxLimit :
        \/ GetUserRiddleHistory(c, u, limit)
        \/ GetUserTreasureHistory(c, u, limit)

HistorySpec == HistoryInit /\ [][HistoryNext]_vars

\* the read paths, with the store reachable or not: one client registering the
\* two test users, logging wrong riddle answers of the first, and reading
Queries == { [username |-> "john_doe"], [is_active |-> TRUE] }
Limits == 0..MaxLimit
ReadLoggers == {1, InvalidId}

ReadNext ==
    \E c \in {"c1"} :
        \/ \E p \in DemoProfiles : CreateUser(c, p)
        \/ \E p \in DemoProfiles : CreateUserExcept(c, p)
        \/ \E u \in ReadLoggers, r \in Riddles : LogRiddleAttempt(c, u, r, FALSE, 600)
        \/ \E u \in UserIdInputs : GetUserById(c, u)
        \/ \E u \in ObjectIds : GetUserByIdExcept(c, u)
        \/ \E e \in Emails : GetUserByEmail(c, e)
        \/ \E e \in Emails : GetUserByEmailExcept(c, e)
        \/ \E n \in Usernames : GetUserByUsername(c, n)
        \/ \E n \in Usernames : GetUserByUsernameExcept(c, n)
        \/ \E limit \in Limits, skip \in -1..MaxUsers : GetAllUsers(c, limit, skip)
        \/ \E limit \in Limits, skip \in 0..MaxUsers : GetAllUsersExcept(c, limit, skip)
        \/ \E q \in Queries, limit \in Limits : SearchUsers(c, q, limit)
        \/ \E q \in Queries, limit \in Limits : SearchUsersExcept(c, q, limit)
        \/ GetUserCount(c)
        \/ GetUserCountExcept(c)
        \/ \E limit \in Limits : GetLeaderboard(c, limit)
        \/ \E limit \in Limits : GetLeaderboardExcept(c, limit)
        \/ \E u \in HistoryIdInputs, limit \in Limits : GetUserRiddleHistory(c, u, limit)
        \/ \E u \in HistoryPlayers, limit \in Limits :
                GetUserRiddleHistoryExcept(c, u, limit)
        \/ \E u \in HistoryIdInputs, limit \in Limits : GetUserTreasureHistory(c, u, limit)
        \/ \E u \in HistoryPlayers, limit \in Limits :
                GetUserTreasureHistoryExcept(c, u, limit)

ReadSpec == Init /\ [][ReadNext]_vars

\* the statistics read over a populated store and ledger: the two test users
\* and up to StatsEvents events of theirs (wins of 15 points through add_win,
\* wrong riddle answers, losses logged directly), all of the first user or two
\* in three of them, at distinct times or two at a time
StatsPlayers == {1, 2}
StatsIdInputs == StatsPlayers \cup {InvalidId, 3}
StatsKinds == <<"win", "riddle_attempt", "loss">>

StatsOwner(i, shared) == IF shared /\ i % 3 = 0 THEN 2 ELSE 1
StatsKind(i, shift) == StatsKinds[((i + shift) % 3) + 1]
StatsTime(i, paired) == IF paired THEN (i + 1) \div 2 ELSE i

\* the positions up to n of the win events of player u
StatsWins(u, n, shift, shared) ==
    {i \in 1..n : StatsOwner(i, shared) = u /\ StatsKind(i, shift) = "win"}

StatsEvent(i, shift, shared, paired) ==
    LET u == StatsOwner(i, shared)
        kind == StatsKind(i, shift)
        won == Cardinality(StatsWins(u, i, shift, shared))
    IN  [user_id |-> u, event_type |-> kind,
         event_data |->
            IF kind = "win"
            THEN [game_type |-> "treasure_hunt", points_earned |-> 15,
                  total_wins |-> won, total_points |-> 15 * won]
            ELSE IF kind = "riddle_attempt"
            THEN [riddle_id |-> "riddle_001", location |-> "Physical Science Building",
                  is_correct |-> FALSE, time_taken |-> 600,
                  timestamp |-> StatsTime(i, paired)]
            ELSE [reason |-> "timeout"],
         timestamp |-> StatsTime(i, paired), created_at |-> StatsTime(i, paired)]

StatsDoc(u, n, shift, shared, paired) ==
    LET wins == StatsWins(u, n, shift, shared)
        last == CHOOSE i \in wins : \A j \in wins : j <= i
        profile == IF u = 1 THEN JohnDoe ELSE JaneSmith
    IN  IF wins = {}
        THEN SetFields(profile, [created_at |-> 0, updated_at |-> 0, is_active |-> TRUE])
        ELSE SetFields(profile, [created_at |-> 0, is_active |-> TRUE,
                                 updated_at |-> StatsTime(last, paired),
                                 wins |-> Cardinality(wins),
                                 total_points |-> 15 * Cardinality(wins)])

StatsInit ==
    \E n \in 0..StatsEvents, shift \in 0..2, shared \in BOOLEAN, paired \in BOOLEAN :
        /\ users = [u \in StatsPlayers |-> StatsDoc(u, n, shift, shared, paired)]
        /\ game_logs = [i \in 1..n |-> StatsEvent(i, shift, shared, paired)]
        /\ nextId = 3
        /\ clock = StatsTime(n, paired)
        /\ pc = [c \in Callers |-> "idle"]
        /\ loc = [c \in Callers |-> NoLoc]
        /\ ret = NoRet
        /\ credited = [u \in ObjectIds |->
                         [n |-> Cardinality(StatsWins(u, n, shift, shared)),
                          sum |-> 15 * Cardinality(StatsWins(u, n, shift, shared))]]

StatsNext ==
    \E c \in {"c1"} :
        \/ \E u \in StatsIdInputs : GetUserGameStatsFindOne(c, u)
        \/ GetUserGameStatsFind(c)
        \/ GetUserGameStatsRankFindOne(c)
        \/ GetUserGameStatsRankCount(c)

StatsSpec == StatsInit /\ [][StatsNext]_vars

\* --------------------------------------------------------- claim vocabulary
Quiescent == \A c \in Callers : pc[c] = "idle"
Wins(u) == Get(users[u], "wins", 0)
TotalPoints(u) == Get(users[u], "total_points", 0)
LastEvent == game_logs[Len(game_logs)]
EventsOfType(log, type) == {i \in 1..Len(log) : log[i].event_type = type}
\* floor of a time given in tenths of a second
Floor(tenths) == tenths \div 10
\* the riddle reward as the specification states it
SpecRiddlePoints(time_taken) == Max(10, 50 - Floor(time_taken))
\* the unique indexes hold of the stored documents
UniqueKeys ==
    \A u, v \in DOMAIN users :
        u # v => /\ users[u].username # users[v].username
                 /\ users[u].email # users[v].email

\* patch d would give player u a username or email another player holds
Collides(u, d) ==
    \E v \in DOMAIN users \ {u} :
        \/ "username" \in DOMAIN d /\ users[v].username = d.username
        \/ "email" \in DOMAIN d /\ users[v].email = d.email

PlayersWith(points) == {v \in DOMAIN users : TotalPoints(v) = points}

\* the board of the rank example: two players at 100, one at 80, one at 50,
\* all active, and everybody else without points
FourPlayerBoard ==
    /\ Cardinality(PlayersWith(100)) = 2
    /\ Cardinality(PlayersWith(80)) = 1
    /\ Cardinality(PlayersWith(50)) = 1
    /\ \A v \in DOMAIN users :
         IF TotalPoints(v) >= 50 THEN v \in ActivePlayers ELSE TotalPoints(v) = 0

Min(a, b) == IF a <= b THEN a ELSE b

\* -------------------------------------------------------------------- claims
\* C1: once every add_win call has returned, each stored player's
\* total_points is the sum of the points of the add_win calls that succeeded
\* for it and its wins is their number, whatever the interleaving of the
\* callers' store reads and writes (players start without counters, i.e. at 0).
C1_NoWinLost ==
    Quiescent =>
        \A u \in DOMAIN users :
            /\ TotalPoints(u) = credited[u].sum
            /\ Wins(u) = credited[u].n

\* C7: a correct riddle attempt on an existing player raises total_points by
\* max(10, 50 - floor(time_taken)), which is 20 for 30.5 s and 10 for 60.0 s,
\* and wins by 1, through add_win's update.
C7_RiddleScoring ==
    [][\A c \in Callers :
        (/\ AddWinUpdateOne(c)
         /\ loc[c].outer = "log_riddle_attempt"
         /\ loc[c].user_id \in DOMAIN users)
        => LET u == loc[c].user_id
               t == loc[c].args.time_taken
           IN  /\ loc[c].args.is_correct
               /\ users'[u].total_points = TotalPoints(u) + SpecRiddlePoints(t)
               /\ users'[u].wins = Wins(u) + 1
               /\ t = 305 => users'[u].total_points = TotalPoints(u) + 20
               /\ t = 600 => users'[u].total_points = TotalPoints(u) + 10
               /\ \A v \in DOMAIN users \ {u} : users'[v] = users[v]]_vars

C9_TreasureScoring ==
    [][\A c \in Callers :
        /\ \A u \in ObjectIds, t \in Treasures :
             (pc[c] = "idle" /\ LogTreasureFound(c, u, t))
             => /\ Len(game_logs') = Len(game_logs) + 1
                /\ SubSeq(game_logs', 1, Len(game_logs)) = game_logs
                /\ game_logs'[Len(game_logs')].event_type = "treasure_found"
                /\ game_logs'[Len(game_logs')].user_id = u
                /\ game_logs'[Len(game_logs')].event_data.treasure_id = t.treasure_id
                /\ game_logs'[Len(game_logs')].event_data.location = t.location
                /\ game_logs'[Len(game_logs')].event_data.coordinates = t.coordinates
                /\ pc'[c] = "aw_find"
                /\ loc'[c].points = 25
        /\ (pc[c] # "idle" /\ pc'[c] # pc[c] /\ loc[c].outer = "log_treasure_found")
             => EventsOfType(game_logs', "treasure_found")
                    = EventsOfType(game_logs, "treasure_found")
        /\ (/\ AddWinUpdateOne(c)
            /\ loc[c].outer = "log_treasure_found"
            /\ loc[c].user_id \in DOMAIN users)
             => LET u == loc[c].user_id
                IN  /\ users'[u].total_points = TotalPoints(u) + 25
                    /\ users'[u].wins = Wins(u) + 1
                    /\ \A v \in DOMAIN users \ {u} : users'[v] = users[v]]_vars

\* C10: add_win on a well-formed id that matches no stored player returns
\* 'User not found' at once: no player record changes and no event is
\* appended; the same holds for the add_win a game activity calls.
C10_AddWinNotFound ==
    [][\A c \in Callers, u \in ObjectIds :
        /\ (/\ u \notin DOMAIN users
            /\ pc[c] = "idle"
            /\ \E g \in GameTypes, p \in WinPoints : AddWin(c, u, g, p))
             => /\ ret' = [op |-> "add_win", outcome |-> "not_found"]
                /\ pc'[c] = "idle"
                /\ users' = users
                /\ game_logs' = game_logs
        /\ (/\ u \notin DOMAIN users
            /\ pc[c] = "aw_find"
            /\ loc[c].user_id = u
            /\ AddWinNested(c))
             => /\ pc'[c] = "idle"
                /\ users' = users
                /\ game_logs' = game_logs]_vars

C10_Witness ==
    /\ ret = [op |-> "add_win", outcome |-> "not_found"]
    /\ DOMAIN users # {}
    /\ Len(game_logs) >= 1

\* C2: create_user with a complete profile whose username or email equals a
\* stored player's returns the duplicate-user failure, inserts nothing and
\* leaves every stored record as it was.
C2_DuplicateCreate ==
    [][ret'.op = "create_user" =>
       \A c \in Callers, p \in Profiles :
        (/\ RequiredFields \subseteq DOMAIN p
         /\ \E u \in DOMAIN users :
                users[u].username = p.username \/ users[u].email = p.email
         /\ CreateUser(c, p))
        => /\ ret' = [op |-> "create_user", outcome |-> "duplicate"]
           /\ users' = users
           /\ nextId' = nextId]_vars

C2_Witness ==
    /\ ret = [op |-> "create_user", outcome |-> "duplicate"]
    /\ DOMAIN users # {}

\* C3: no two stored players ever share a username or an email, and an
\* update (by id or by email) that would give a player the username or email
\* of another stored player fails and changes no record.
C3_UniqueKeys ==
    [][/\ UniqueKeys
       /\ UniqueKeys'
       /\ ret'.op \in {"update_user", "update_user_by_email"} =>
          \A c \in Callers, d \in Patches :
            /\ \A u \in DOMAIN users :
                 (Collides(u, d) /\ UpdateUser(c, u, d))
                 => /\ users' = users
                    /\ ret'.outcome = "error"
            /\ \A e \in Emails :
                 (/\ \E u \in DOMAIN users : users[u].email = e /\ Collides(u, d)
                  /\ UpdateUserByEmail(c, e, d))
                 => /\ users' = users
                    /\ ret'.outcome = "error"]_vars

C3_Witness ==
    /\ ret = [op |-> "update_user", outcome |-> "error", error |-> "DuplicateKeyError"]
    /\ Cardinality(DOMAIN users) = 2

\* C4: for a stored player get_user_rank returns 1 plus the number of ACTIVE
\* players with strictly more total_points; an inactive player with more
\* points does not worsen the rank.
C4_RankAmongActive ==
    (ret.op = "get_user_rank" /\ ret.user_id \in DOMAIN users)
    => ret.rank = 1 + Cardinality({v \in ActivePlayers :
                                      TotalPoints(v) > TotalPoints(ret.user_id)})

\* C5: a player's rank is 1 plus the number of stored players with strictly
\* more points, so players with equal points get equal ranks and the next
\* rank skips past them: where four active players hold 100, 100, 80 and 50
\* points and nobody else holds 50 or more, their ranks are 1, 1, 3 and 4.
C5_TiesShareRank ==
    (ret.op = "get_user_rank" /\ ret.user_id \in DOMAIN users)
    => LET mine == TotalPoints(ret.user_id) IN
        /\ ret.rank = 1 + Cardinality({v \in DOMAIN users : TotalPoints(v) > mine})
        /\ FourPlayerBoard =>
             /\ mine = 100 => ret.rank = 1
             /\ mine = 80 => ret.rank = 3
             /\ mine = 50 => ret.rank = 4

C5_Witness ==
    /\ FourPlayerBoard
    /\ ret.op = "get_user_rank"
    /\ ret.user_id \in DOMAIN users
    /\ TotalPoints(ret.user_id) = 80
    /\ ret.rank = 3

\* C6: get_leaderboard(limit) returns exactly min(limit, number of active
\* players) entries, all of active players, each player once, in
\* non-increasing total_points order, and no active player left out has more
\* points than one returned.
C6_Leaderboard ==
    ret.op = "get_leaderboard"
    => LET board == ret.leaderboard
           listed == {board[i].user_id : i \in 1..Len(board)}
       IN  /\ Len(board) = Min(ret.limit, Cardinality(ActivePlayers))
           /\ listed \subseteq ActivePlayers
           /\ Cardinality(listed) = Len(board)
           /\ \A i \in 1..Len(board) :
                /\ board[i].total_points = TotalPoints(board[i].user_id)
                /\ i > 1 => board[i - 1].total_points >= board[i].total_points
           /\ \A v \in ActivePlayers \ listed, u \in listed :
                TotalPoints(v) <= TotalPoints(u)

\* C11: an add_win call on an existing player raises the stored wins by
\* exactly 1 and total_points by exactly `points` and stamps updated_at, and
\* then appends exactly one win event whose payload carries the source, the
\* points earned and the wins and total_points the counter update stored.
C11_AddWinEffect ==
    [][\A c \in Callers :
        /\ (/\ pc[c] = "aw_update"
            /\ loc[c].outer = "add_win"
            /\ loc[c].user_id \in DOMAIN users
            /\ AddWinUpdateOne(c))
            => LET u == loc[c].user_id IN
                /\ users'[u].wins = Wins(u) + 1
                /\ users'[u].total_points = TotalPoints(u) + loc[c].points
                /\ users'[u].updated_at = clock
                /\ users'[u].wins = loc[c].current_wins + 1
                /\ users'[u].total_points = loc[c].current_points + loc[c].points
                /\ \A v \in DOMAIN users \ {u} : users'[v] = users[v]
        /\ (/\ pc[c] = "aw_log"
            /\ loc[c].outer = "add_win"
            /\ AddWinLogEvent(c))
            => /\ Len(game_logs') = Len(game_logs) + 1
               /\ SubSeq(game_logs', 1, Len(game_logs)) = game_logs
               /\ game_logs'[Len(game_logs')].event_type = "win"
               /\ game_logs'[Len(game_logs')].user_id = loc[c].user_id
               /\ game_logs'[Len(game_logs')].event_data =
                    [game_type |-> loc[c].game_type,
                     points_earned |-> loc[c].points,
                     total_wins |-> loc[c].current_wins + 1,
                     total_points |-> loc[c].current_points + loc[c].points]
               /\ ret'.outcome = "success"]_vars

\* the win events of player u in the ledger, and the points they record
WinEvents(u) ==
    {i \in 1..Len(game_logs) :
        game_logs[i].event_type = "win" /\ game_logs[i].user_id = u}

RECURSIVE LedgerPointsUpTo(_, _)
LedgerPointsUpTo(u, n) ==
    IF n = 0 THEN 0
    ELSE LedgerPointsUpTo(u, n - 1)
         + (IF n \in WinEvents(u) THEN game_logs[n].event_data.points_earned ELSE 0)

LedgerPoints(u) == LedgerPointsUpTo(u, Len(game_logs))

\* C12: in every reachable state, also between the steps of add_win calls,
\* the ledger holds no win event whose points are missing from the player's
\* counters: each stored player's counters cover its win events (the counters
\* may be ahead of the ledger, never behind it).
C12_LedgerNeverAhead ==
    \A u \in DOMAIN users :
        /\ Cardinality(WinEvents(u)) <= Wins(u)
        /\ LedgerPoints(u) <= TotalPoints(u)

\* C14: wins and total_points of every player are non-negative in every
\* reachable state, and no step decreases them.
C14_CountersMonotone ==
    [][\A u \in DOMAIN users :
        /\ Wins(u) >= 0
        /\ TotalPoints(u) >= 0
        /\ u \in DOMAIN users' =>
            /\ Get(users'[u], "wins", 0) >= Wins(u)
            /\ Get(users'[u], "total_points", 0) >= TotalPoints(u)
            /\ Get(users'[u], "wins", 0) >= 0
            /\ Get(users'[u], "total_points", 0) >= 0]_vars

\* C16: in every quiescent state each stored player's wins is the number of
\* its win events in the ledger and its total_points is the sum of their
\* points_earned.
C16_RecomputableFromLedger ==
    Quiescent =>
        \A u \in DOMAIN users :
            /\ Wins(u) = Cardinality(WinEvents(u))
            /\ TotalPoints(u) = LedgerPoints(u)

\* C15: the ledger is append-only: every step of every operation (update,
\* soft delete and hard delete of the player included) leaves each event
\* already in game_logs in place and unchanged; the ledger only grows.
C15_LedgerAppendOnly ==
    [][/\ Len(game_logs') >= Len(game_logs)
       /\ SubSeq(game_logs', 1, Len(game_logs)) = game_logs]_vars

C15_Witness ==
    /\ ret.op = "delete_user"
    /\ ret.outcome = "success"
    /\ \E i \in 1..Len(game_logs) :
         /\ game_logs[i].event_type = "win"
         /\ game_logs[i].user_id \notin DOMAIN users

\* C13: no create_user, update_user, update_user_by_email, deactivate_user or
\* activate_user call, whatever its patch, changes the wins or total_points
\* of an existing player.
C13_CountersOnlyByAddWin ==
    [][ret'.op \in {"create_user", "update_user", "update_user_by_email"} =>
        \A u \in DOMAIN users \cap DOMAIN users' :
            /\ Get(users'[u], "wins", 0) = Wins(u)
            /\ Get(users'[u], "total_points", 0) = TotalPoints(u)]_vars

\* C20: create_user with a profile that lacks username, email, first_name or
\* last_name returns the validation failure and inserts nothing; a successful
\* create_user stores the profile under a fresh id with is_active = true and
\* created_at / updated_at set, leaves the other players alone, and returns
\* that id with the profile's username and email.
C20_CreateUser ==
    [][ret'.op = "create_user" =>
       \A c \in Callers, p \in Profiles :
        CreateUser(c, p) =>
            /\ (\E f \in {"username", "email", "first_name", "last_name"} :
                    f \notin DOMAIN p) =>
                /\ ret' = [op |-> "create_user", outcome |-> "error",
                           error |-> "ValueError"]
                /\ users' = users
                /\ nextId' = nextId
            /\ ret'.outcome = "success" =>
                /\ {"username", "email", "first_name", "last_name"} \subseteq DOMAIN p
                /\ DOMAIN users' = DOMAIN users \cup {ret'.user_id}
                /\ ret'.user_id \notin DOMAIN users
                /\ \A u \in DOMAIN users : users'[u] = users[u]
                /\ \A f \in DOMAIN p : users'[ret'.user_id][f] = p[f]
                /\ users'[ret'.user_id].is_active = TRUE
                /\ users'[ret'.user_id].created_at = clock
                /\ users'[ret'.user_id].updated_at = clock
                /\ ret'.username = p.username
                /\ ret'.email = p.email]_vars

C20_Witness ==
    /\ ret = [op |-> "create_user", outcome |-> "error", error |-> "ValueError"]
    /\ Cardinality(DOMAIN users) = 2
    /\ \A u \in DOMAIN users : users[u].is_active

\* what the reads return about deactivated players
SoftDeletedReads ==
    /\ (/\ ret.op = "get_user_by_id"
        /\ ret.user_id \in DOMAIN users
        /\ users[ret.user_id].is_active = FALSE)
        => /\ ret.found
           /\ ret.user._id = ret.user_id
           /\ ret.user.is_active = FALSE
           /\ \A f \in DOMAIN users[ret.user_id] : ret.user[f] = users[ret.user_id][f]
    /\ (/\ ret.op = "get_user_by_username"
        /\ \E u \in DOMAIN users :
             users[u].username = ret.username /\ users[u].is_active = FALSE)
        => /\ ret.found
           /\ ret.user.username = ret.username
           /\ ret.user.is_active = FALSE
    /\ ret.op = "get_leaderboard"
        => \A i \in 1..Len(ret.leaderboard) :
             users[ret.leaderboard[i].user_id].is_active = TRUE
    /\ ret.op = "get_active_users_count"
        => ret.count = Cardinality({u \in DOMAIN users : users[u].is_active = TRUE})
    /\ ret.op = "get_user_count"
        => ret.count = Cardinality(DOMAIN users)

\* C17: a successful deactivate_user keeps the player's record, with
\* is_active = false; afterwards get_user_by_id and get_user_by_username
\* still return that record, get_leaderboard and get_active_users_count leave
\* the player out, and get_user_count still counts it.
C17_SoftDelete ==
    [][/\ \A c \in Callers, u \in ObjectIds :
            (/\ ret'.op = "update_user"
             /\ ret'.outcome = "success"
             /\ DeactivateUser(c, u))
            => /\ DOMAIN users' = DOMAIN users
               /\ users'[u].is_active = FALSE
       /\ SoftDeletedReads']_vars

C17_Witness ==
    /\ ret.op = "get_leaderboard"
    /\ ret.limit = 2
    /\ Len(ret.leaderboard) = 1
    /\ Cardinality(DOMAIN users) = 2
    /\ \E u \in DOMAIN users : users[u].is_active = FALSE

C18_History ==
    (/\ ret.op \in {"get_user_riddle_history", "get_user_treasure_history"}
     /\ ret.user_id # InvalidId)
    => LET type == IF ret.op = "get_user_riddle_history"
                   THEN "riddle_attempt" ELSE "treasure_found"
           mine == {i \in 1..Len(game_logs) :
                       /\ game_logs[i].user_id = ret.user_id
                       /\ game_logs[i].event_type = type}
           h == ret.history
           At(t) == {i \in mine : game_logs[i].timestamp = t}
           Shown(t) == {j \in 1..Len(h) : h[j].timestamp = t}
       IN  /\ Len(h) = Min(ret.limit, Cardinality(mine))
           /\ \A j \in 1..Len(h) :
                /\ \E i \in mine :
                     /\ h[j].timestamp = game_logs[i].timestamp
                     /\ h[j].location = game_logs[i].event_data.location
                     /\ type = "riddle_attempt" =>
                          h[j].time_taken = game_logs[i].event_data.time_taken
                /\ j > 1 => h[j - 1].timestamp >= h[j].timestamp
                /\ Cardinality(Shown(h[j].timestamp)) <= Cardinality(At(h[j].timestamp))
           /\ \A i \in mine :
                (Len(h) > 0 /\ game_logs[i].timestamp > h[Len(h)].timestamp)
                => Cardinality(Shown(game_logs[i].timestamp))
                     = Cardinality(At(game_logs[i].timestamp))

\* C21: no step changes the created_at of a stored player or gives its
\* document another _id: update_user drops `_id` and `created_at` from the
\* patch, and deactivate, activate and add_win do not write them.
C21_IdAndCreatedAtFixed ==
    [][\A u \in DOMAIN users \cap DOMAIN users' :
          /\ users'[u].created_at = users[u].created_at
          /\ Get(users'[u], "_id", u) = u]_vars

C21_Witness ==
    \E u \in DOMAIN users :
        /\ Get(users[u], "age", 0) = 26
        /\ users[u].created_at = 0
        /\ "_id" \notin DOMAIN users[u]
        /\ Wins(u) >= 1
        /\ users[u].is_active = FALSE

\* C22: an update_user call whose well-formed id matches no stored player
\* returns 'User not found' and leaves the users collection as it was: no
\* record is changed and none is created.
C22_UpdateNotFound ==
    [][\A u \in ObjectIds :
          (/\ u \notin DOMAIN users
           /\ ret'.op = "update_user"
           /\ \E c \in Callers, d \in Patches : UpdateUser(c, u, d))
          => /\ ret'.outcome = "not_found"
             /\ users' = users]_vars

C22_Witness ==
    /\ ret.op = "update_user"
    /\ ret.outcome = "not_found"
    /\ DOMAIN users = {2}

\* C23: delete_user on a stored id, and delete_user_by_email on a stored
\* email, succeed and remove that one record and no other; on an id or email
\* that is not stored they return 'User not found' and remove nothing; and a
\* get by id, email or username that names no stored record (so every get
\* for a deleted player) returns None.
C23_HardDelete ==
    [][/\ \A u \in ObjectIds :
            (ret'.op = "delete_user" /\ \E c \in Callers : DeleteUser(c, u))
            => IF u \in DOMAIN users
               THEN /\ ret'.outcome = "success"
                    /\ users' = [v \in DOMAIN users \ {u} |-> users[v]]
               ELSE /\ ret'.outcome = "not_found"
                    /\ users' = users
       /\ \A e \in Emails :
            (ret'.op = "delete_user_by_email"
                /\ \E c \in Callers : DeleteUserByEmail(c, e))
            => LET addressed == {u \in DOMAIN users : users[u].email = e}
               IN  IF addressed # {}
                   THEN /\ ret'.outcome = "success"
                        /\ \E u \in addressed :
                             users' = [v \in DOMAIN users \ {u} |-> users[v]]
                        /\ \A v \in DOMAIN users' : users'[v].email # e
                   ELSE /\ ret'.outcome = "not_found"
                        /\ users' = users
       /\ (ret'.op = "get_user_by_id" /\ ret'.user_id \notin DOMAIN users')
            => ~ret'.found
       /\ (ret'.op = "get_user_by_email"
             /\ \A v \in DOMAIN users' : users'[v].email # ret'.email)
            => ~ret'.found
       /\ (ret'.op = "get_user_by_username"
             /\ \A v \in DOMAIN users' : users'[v].username # ret'.username)
            => ~ret'.found]_vars

C23_Witness ==
    /\ ret.op = "get_user_by_email"
    /\ ~ret.found
    /\ nextId = 3
    /\ \E v \in DOMAIN users : users[v].email # ret.email

\* C24: get_user_rank returns 0 for an id that is malformed or not stored,
\* and a rank of at least 1 for every stored player.
C24_RankOfUnknown ==
    ret.op = "get_user_rank"
    => IF ret.user_id \in DOMAIN users THEN ret.rank >= 1 ELSE ret.rank = 0

C24_Witness ==
    /\ ret.op = "get_user_rank"
    /\ ret.rank = 0
    /\ ret.user_id = RankPlayers + 1
    /\ \E u \in DOMAIN users : TotalPoints(u) = 100

RECURSIVE SumOver(_, _)
SumOver(counts, types) ==
    IF types = {} THEN 0
    ELSE LET t == CHOOSE x \in types : TRUE
         IN  counts[t] + SumOver(counts, types \ {t})

\* C25: get_user_game_stats returns 'User not found' for a well-formed id
\* that is not stored and no statistics for a malformed one; for a stored
\* player it returns the stored wins and total_points, the number of the
\* player's ledger events, a breakdown by type that counts each type right and
\* sums to that number, min(10, number) recent events that are the player's
\* newest in non-increasing order of time, and the rank get_user_rank gives:
\* one more than the number of stored players with more points.
C25_GameStats ==
    ret.op = "get_user_game_stats"
    => IF ret.user_id \notin DOMAIN users
       THEN ret.outcome = (IF ret.user_id = InvalidId THEN "error" ELSE "not_found")
       ELSE LET u == ret.user_id
                mine == {i \in 1..Len(game_logs) : game_logs[i].user_id = u}
                recent == ret.recent_activity
                At(t) == {i \in mine : game_logs[i].timestamp = t}
                Shown(t) == {j \in 1..Len(recent) : recent[j].timestamp = t}
            IN  /\ ret.outcome = "success"
                /\ ret.total_wins = Wins(u)
                /\ ret.total_points = TotalPoints(u)
                /\ ret.total_events = Cardinality(mine)
                /\ \A t \in DOMAIN ret.event_breakdown :
                     ret.event_breakdown[t] =
                        Cardinality({i \in mine : game_logs[i].event_type = t})
                /\ SumOver(ret.event_breakdown, DOMAIN ret.event_breakdown)
                     = ret.total_events
                /\ Len(recent) = Min(10, Cardinality(mine))
                /\ \A j \in 1..Len(recent) :
                     /\ \E i \in mine :
                          /\ recent[j].timestamp = game_logs[i].timestamp
                          /\ recent[j].event_type = game_logs[i].event_type
                          /\ recent[j].data = game_logs[i].event_data
                     /\ j > 1 => recent[j - 1].timestamp >= recent[j].timestamp
                     /\ Cardinality(Shown(recent[j].timestamp))
                          <= Cardinality(At(recent[j].timestamp))
                /\ \A i \in mine :
                     (Len(recent) > 0
                        /\ game_logs[i].timestamp > recent[Len(recent)].timestamp)
                     => Cardinality(Shown(game_logs[i].timestamp))
                          = Cardinality(At(game_logs[i].timestamp))
                /\ ret.rank = 1 + Cardinality({v \in DOMAIN users :
                                                 TotalPoints(v) > TotalPoints(u)})

C25_Witness ==
    /\ ret.op = "get_user_game_stats"
    /\ ret.outcome = "success"
    /\ ret.total_events = 11
    /\ Len(ret.recent_activity) = 10
    /\ ret.total_wins >= 3
    /\ Cardinality(DOMAIN ret.event_breakdown) = 3

\* C26: whenever the store fails during a call (the handler logged a
\* ServerSelectionTimeoutError), the caller's result names that failure: it
\* is not None, an empty list, a zero or a success.
C26_StoreFailureSurfaced ==
    ("logged" \in DOMAIN ret /\ ret.logged = "ServerSelectionTimeoutError")
    => /\ "error" \in DOMAIN ret
       /\ ret.error = "ServerSelectionTimeoutError"

\* C27: a write reports a malformed id and a missing required field as a
\* validation failure (the handler's generic error), an id that is not stored
\* as 'User not found', and a duplicate key, on create and on update alike,
\* as an outcome that is neither of the two.
C27_DistinctFailures ==
    [][/\ \A p \in Profiles :
            (ret'.op = "create_user" /\ \E c \in Callers : CreateUser(c, p))
            => /\ ~({"username", "email", "first_name", "last_name"} \subseteq DOMAIN p)
                    => ret'.outcome = "error"
               /\ (\E v \in DOMAIN users :
                       \/ ("email" \in DOMAIN p /\ users[v].email = p.email)
                       \/ ("username" \in DOMAIN p /\ users[v].username = p.username))
                    => ret'.outcome \notin {"success", "not_found"}
               /\ (/\ {"username", "email", "first_name", "last_name"} \subseteq DOMAIN p
                   /\ \E v \in DOMAIN users :
                       users[v].email = p.email \/ users[v].username = p.username)
                    => ret'.outcome \notin {"success", "not_found", "error"}
       /\ \A u \in UserIdInputs, d \in Patches :
            (ret'.op = "update_user" /\ \E c \in Callers : UpdateUser(c, u, d))
            => /\ u = InvalidId => ret'.outcome = "error"
               /\ u \in ObjectIds \ DOMAIN users => ret'.outcome = "not_found"
               /\ (/\ u \in DOMAIN users
                   /\ \E v \in DOMAIN users \ {u} :
                       \/ ("email" \in DOMAIN d /\ users[v].email = d.email)
                       \/ ("username" \in DOMAIN d /\ users[v].username = d.username))
                    => ret'.outcome \notin {"success", "not_found", "error"}]_vars

\* C28: no read raises. get_user_by_id, by_email and by_username return None
\* when the store read fails or no stored player has that id (malformed
\* or not), email or username; get_all_users, search_users, get_leaderboard
\* and the two histories return an empty list when the store read fails or
\* nothing matches: no player stored, none matching the query, none active,
\* a malformed player id, or no such event of that player.
C28_ReadsNeverRaise ==
    LET failed == "logged" \in DOMAIN ret
        absent == "found" \in DOMAIN ret /\ ret.found = FALSE
        none(list) == list \in DOMAIN ret /\ ret[list] = <<>>
    IN  /\ ret.op \in {"get_user_by_id", "get_user_by_email", "get_user_by_username",
                       "get_all_users", "search_users", "get_leaderboard",
                       "get_user_riddle_history", "get_user_treasure_history"}
             => "raised" \notin DOMAIN ret
        /\ (ret.op = "get_user_by_id" /\ (failed \/ ret.user_id \notin DOMAIN users))
             => absent
        /\ (ret.op = "get_user_by_email"
              /\ (failed \/ \A v \in DOMAIN users : users[v].email # ret.email))
             => absent
        /\ (ret.op = "get_user_by_username"
              /\ (failed \/ \A v \in DOMAIN users : users[v].username # ret.username))
             => absent
        /\ (ret.op = "get_all_users" /\ (failed \/ DOMAIN users = {}))
             => none("users")
        /\ (ret.op = "search_users"
              /\ (failed \/ \A v \in DOMAIN users :
                               \E f \in DOMAIN ret.query :
                                   Get(users[v], f, "none") # ret.query[f]))
             => none("users")
        /\ (ret.op = "get_leaderboard"
              /\ (failed \/ \A v \in DOMAIN users : ~users[v].is_active))
             => none("leaderboard")
        /\ (ret.op = "get_user_riddle_history"
              /\ (failed \/ ret.user_id = InvalidId
                    \/ \A i \in 1..Len(game_logs) :
                          \/ game_logs[i].user_id # ret.user_id
                          \/ game_logs[i].event_type # "riddle_attempt"))
             => none("history")
        /\ (ret.op = "get_user_treasure_history"
              /\ (failed \/ ret.user_id = InvalidId
                    \/ \A i \in 1..Len(game_logs) :
                          \/ game_logs[i].user_id # ret.user_id
                          \/ game_logs[i].event_type # "treasure_found"))
             => none("history")

C28_Witness ==
    /\ ret.op = "get_all_users"
    /\ "logged" \in DOMAIN ret
    /\ ret.logged = "ServerSelectionTimeoutError"
    /\ ret.users = <<>>
    /\ Cardinality(DOMAIN users) = 2
    /\ Len(game_logs) >= 1

\* C29: with the store reachable, get_all_users(limit, skip) returns no
\* player for a negative skip, and otherwise min(limit, n - skip) players, n
\* being the number stored: those at positions skip + 1, skip + 2, ... of the
\* order of insertion, each once and as stored, so that the pages at offsets
\* 0, limit, 2 * limit, ... are disjoint and together list every player.
C29_Pagination ==
    (ret.op = "get_all_users"
        /\ ~("logged" \in DOMAIN ret /\ ret.logged = "ServerSelectionTimeoutError"))
    => IF ret.skip < 0
       THEN ret.users = <<>>
       ELSE /\ Len(ret.users)
                 = Min(ret.limit, Max(Cardinality(DOMAIN users) - ret.skip, 0))
            /\ \A i \in 1..Len(ret.users) :
                 /\ ret.users[i]._id \in DOMAIN users
                 /\ Cardinality({v \in DOMAIN users : v < ret.users[i]._id})
                      = ret.skip + i - 1
                 /\ ret.users[i] = SetFields(users[ret.users[i]._id],
                                             [_id |-> ret.users[i]._id])

\* C30: log_game_event with a well-formed player id appends that event to
\* the ledger, leaving the earlier events as they were, and returns success
\* with the new event's id, whether the player is stored, was never
\* registered, or has been deleted.
C30_LogWithoutPlayer ==
    [][\A u \in ObjectIds, e \in DirectEvents :
          (ret'.op = "log_game_event" /\ \E c \in Callers : LogGameEvent(c, u, e))
          => /\ ret'.outcome = "success"
             /\ Len(game_logs') = Len(game_logs) + 1
             /\ SubSeq(game_logs', 1, Len(game_logs)) = game_logs
             /\ ret'.log_id = Len(game_logs')
             /\ game_logs'[Len(game_logs')].user_id = u
             /\ game_logs'[Len(game_logs')].event_type = e.event_type
             /\ game_logs'[Len(game_logs')].event_data = e.event_data]_vars

C30_Witness ==
    /\ ret.op = "log_game_event"
    /\ ret.outcome = "success"
    /\ LastEvent.event_type = "loss"
    /\ LastEvent.user_id \notin DOMAIN users
    /\ LastEvent.user_id < nextId
    /\ \E i \in 1..Len(game_logs) :
         game_logs[i].event_type = "win" /\ game_logs[i].user_id = LastEvent.user_id

\* C31: the positions of a returned leaderboard of k entries are 1, 2, ...,
\* k in the order of the entries, without repeats or gaps, also when entries
\* have equal total_points.
C31_LeaderboardPositions ==
    ret.op = "get_leaderboard"
    => /\ \A i \in 1..Len(ret.leaderboard) : ret.leaderboard[i].rank = i
       /\ {ret.leaderboard[i].rank : i \in 1..Len(ret.leaderboard)}
            = 1..Len(ret.leaderboard)

C31_Witness ==
    /\ ret.op = "get_leaderboard"
    /\ Len(ret.leaderboard) >= 3
    /\ ret.leaderboard[1].total_points = ret.leaderboard[2].total_points
    /\ ret.leaderboard[2].total_points = 100
    /\ ret.leaderboard[2].rank = 2
    /\ ret.leaderboard[3].rank = 3

\* the stored documents without their updated_at
IgnoringUpdatedAt(store) ==
    [u \in DOMAIN store |-> [f \in DOMAIN store[u] \ {"updated_at"} |-> store[u][f]]]

\* the document of player u holds every value of the patch d
Holds(store, u, d) ==
    u \in DOMAIN store /\ \A f \in DOMAIN d : f \in DOMAIN store[u] /\ store[u][f] = d[f]

\* C32: create_user, update_user (also as deactivate_user and
\* activate_user) and delete_user are idempotent. A call that does not succeed
\* changes no record; one that succeeds leaves its effect in the store (the
\* profile registered, the patch's values held, the record gone); and a call
\* made on a store that already shows that effect changes nothing but
\* updated_at, reporting a duplicate key for create_user and 'User not found'
\* for delete_user.
C32_IdempotentRetry ==
    [][/\ \A p \in DemoProfiles :
            (ret'.op = "create_user" /\ \E c \in Callers : CreateUser(c, p))
            => /\ ret'.outcome = "success" => Holds(users', ret'.user_id, p)
               /\ ret'.outcome # "success" => users' = users
               /\ (\E u \in DOMAIN users : Holds(users, u, p))
                    => /\ users' = users
                       /\ ret'.outcome = "duplicate"
       /\ \A u \in ObjectIds,
             d \in RetryPatches \cup {[is_active |-> FALSE], [is_active |-> TRUE]} :
            (ret'.op = "update_user" /\ \E c \in Callers : UpdateUser(c, u, d))
            => /\ ret'.outcome = "success" => Holds(users', u, d)
               /\ ret'.outcome # "success" => users' = users
               /\ Holds(users, u, d)
                    => /\ IgnoringUpdatedAt(users') = IgnoringUpdatedAt(users)
                       /\ ret'.outcome = "success"
       /\ \A u \in ObjectIds :
            (ret'.op = "delete_user" /\ \E c \in Callers : DeleteUser(c, u))
            => /\ ret'.outcome = "success" => u \notin DOMAIN users'
               /\ ret'.outcome # "success" => users' = users
               /\ u \notin DOMAIN users
                    => /\ users' = users
                       /\ ret'.outcome = "not_found"]_vars

C32_Witness ==
    /\ ret.op = "update_user"
    /\ ret.outcome = "success"
    /\ ret.modified_count = 0
    /\ \E u \in DOMAIN users :
         /\ users[u].is_active = FALSE
         /\ Holds(users, u, [age |-> 26, username |-> "jane_smith"])
    /\ nextId = 3
    /\ Cardinality(DOMAIN users) = 1

\* ---------------------------------------------------------------- the clock
MaxClock == 2

\* time passing between two steps of the clients
Tick ==
    /\ clock < MaxClock
    /\ clock' = clock + 1
    /\ ret' = NoRet
    /\ UNCHANGED <<users, game_logs, nextId, pc, loc, credited>>

\* concurrent clients registering, scoring and editing the first test user
\* while time passes
StampNext ==
    \/ Tick
    \/ \E c \in Callers :
        \/ CreateUser(c, JohnDoe)
        \/ \E u \in ObjectIds, g \in {"riddle"}, p \in WinPoints : AddWin(c, u, g, p)
        \/ AddWinUpdateOne(c)
        \/ AddWinLogEvent(c)
        \/ \E u \in ObjectIds, d \in RetryPatches : UpdateUser(c, u, d)
        \/ \E u \in ObjectIds : DeactivateUser(c, u)

StampSpec == Init /\ [][StampNext]_vars

\* C33: every step that changes a player's record leaves updated_at at a
\* reading no earlier than the one it replaces and no earlier than created_at,
\* and no step changes a record while leaving updated_at absent
C33_UpdatedAtMonotone ==
    [][\A u \in DOMAIN users \cap DOMAIN users' :
          users'[u] # users[u] =>
              /\ users'[u].updated_at >= users[u].updated_at
              /\ users'[u].updated_at >= users'[u].created_at]_vars

\* one client registering the two test users, scoring, and deactivating and
\* reactivating them
ToggleNext ==
    \E c \in {"c1"} :
        \/ \E p \in DemoProfiles : CreateUser(c, p)
        \/ \E u \in ObjectIds, g \in {"riddle"}, p \in WinPoints : AddWin(c, u, g, p)
        \/ AddWinUpdateOne(c)
        \/ AddWinLogEvent(c)
        \/ \E u \in UserIdInputs : DeactivateUser(c, u)
        \/ \E u \in UserIdInputs : ActivateUser(c, u)

ToggleSpec == Init /\ [][ToggleNext]_vars

\* the fields of a record other than is_active and updated_at
Kept(doc) == [f \in DOMAIN doc \ {"is_active", "updated_at"} |-> doc[f]]

\* C34: a deactivate_user or activate_user step leaves the ledger, the set of
\* players, every other player's record and every field of the addressed
\* record but is_active and updated_at as they were; activate_user on a
\* deactivated player leaves it with is_active = TRUE
C34_ToggleFrame ==
    [][\A u \in UserIdInputs :
          (/\ ret'.op = "update_user"
           /\ DeactivateUser("c1", u) \/ ActivateUser("c1", u))
          => /\ game_logs' = game_logs
             /\ DOMAIN users' = DOMAIN users
             /\ \A v \in DOMAIN users :
                   /\ v # u => users'[v] = users[v]
                   /\ Kept(users'[v]) = Kept(users[v])
             /\ (/\ ActivateUser("c1", u)
                 /\ u \in DOMAIN users
                 /\ users[u].is_active = FALSE) => users'[u].is_active = TRUE]_vars

\* a player with a credited win has been deactivated and reactivated: the last
\* call changed a record, every stamp is the one reading of the clock, and
\* every player is active, so the change was the flag going back to TRUE
C34_Witness ==
    /\ ret.op = "update_user"
    /\ ret.outcome = "success"
    /\ ret.modified_count = 1
    /\ Len(game_logs) = 1
    /\ Cardinality(DOMAIN users) = 2
    /\ \A u \in DOMAIN users : users[u].is_active = TRUE
    /\ \E u \in DOMAIN users : Get(users[u], "wins", 0) = 1

\* what get_user_rank returns for the stored player u on the store as it is
RankOf(u) == HigherRanked(TotalPoints(u)) + 1

\* C35: in a leaderboard computed on a quiescent store every entry's position
\* is at least get_user_rank of its player, and equal to it when no other
\* player holds the same total_points.
C35_PositionVersusRank ==
    (ret.op = "get_leaderboard" /\ Quiescent)
    => \A i \in 1..Len(ret.leaderboard) :
          LET u == ret.leaderboard[i].user_id IN
            /\ ret.leaderboard[i].rank >= RankOf(u)
            /\ PlayersWith(TotalPoints(u)) = {u} => ret.leaderboard[i].rank = RankOf(u)

\* the ledger type of the event a game activity logs for itself
ActivityType(outer) ==
    IF outer = "log_riddle_attempt" THEN "riddle_attempt" ELSE "treasure_found"

\* C36: when a log_riddle_attempt or log_treasure_found call for which a win
\* was due returns, it reports success exactly when its activity event is in
\* the ledger and its add_win has credited the win to a stored player; when no
\* win was due, exactly when it appended its event. A correct attempt or a
\* find for a player that is not stored does not return success.
C36_ActivityResult ==
    [][\A c \in Callers :
        /\ (/\ pc[c] \in {"aw_find", "aw_log"}
            /\ pc'[c] = "idle"
            /\ loc[c].outer \in {"log_riddle_attempt", "log_treasure_found"})
           => LET u == loc[c].user_id IN
              (ret'.outcome = "success"
                 <=> /\ \E i \in 1..Len(game_logs') :
                          /\ game_logs'[i].user_id = u
                          /\ game_logs'[i].event_type = ActivityType(loc[c].outer)
                     /\ u \in DOMAIN users'
                     /\ credited'[u].n = credited[u].n + 1)
        /\ (/\ pc' = pc
            /\ ret'.op \in {"log_riddle_attempt", "log_treasure_found"})
           => (ret'.outcome = "success"
                 <=> /\ Len(game_logs') = Len(game_logs) + 1
                     /\ game_logs'[Len(game_logs')].event_type = ActivityType(ret'.op))]_vars

\* the game activities in progress: calls of log_riddle_attempt with a correct
\* answer and of log_treasure_found that have logged their event
Activities == {"log_riddle_attempt", "log_treasure_found"}

\* C37: a correct riddle attempt or a treasure find first appends its activity
\* event and changes no record; its add_win then reads and, for a stored
\* player, writes the counters without touching the ledger; the win event is
\* appended after that write, and nothing else is: two events per call, the
\* activity event before the counter update and the win event after it.
C37_EventOrder ==
    [][\A c \in Callers :
        /\ (pc[c] = "idle" /\ pc'[c] = "aw_find")
           => /\ loc'[c].outer \in Activities
              /\ Len(game_logs') = Len(game_logs) + 1
              /\ SubSeq(game_logs', 1, Len(game_logs)) = game_logs
              /\ game_logs'[Len(game_logs')].event_type = ActivityType(loc'[c].outer)
              /\ game_logs'[Len(game_logs')].user_id = loc'[c].user_id
              /\ users' = users
        /\ (pc[c] = "aw_find" /\ pc'[c] # "aw_find" /\ loc[c].user_id \in DOMAIN users)
           => /\ pc'[c] = "aw_update"
              /\ game_logs' = game_logs
              /\ users' = users
        /\ (pc[c] = "aw_update" /\ pc'[c] # "aw_update" /\ loc[c].outer \in Activities)
           => /\ pc'[c] = "aw_log"
              /\ game_logs' = game_logs
              /\ \E i \in 1..Len(game_logs) :
                    /\ game_logs[i].event_type = ActivityType(loc[c].outer)
                    /\ game_logs[i].user_id = loc[c].user_id
              /\ loc[c].user_id \in DOMAIN users
              /\ users'[loc[c].user_id].wins = loc[c].current_wins + 1
        /\ (pc[c] = "aw_log" /\ pc'[c] # "aw_log" /\ loc[c].outer \in Activities)
           => /\ pc'[c] = "idle"
              /\ ret'.op = loc[c].outer
              /\ Len(game_logs') = Len(game_logs) + 1
              /\ SubSeq(game_logs', 1, Len(game_logs)) = game_logs
              /\ game_logs'[Len(game_logs')].event_type = "win"
              /\ game_logs'[Len(game_logs')].user_id = loc[c].user_id
              /\ users' = users]_vars

\* a treasure find has returned: its treasure_found event, then the win event,
\* with the counters written
C37_Witness ==
    /\ ret.op = "log_treasure_found"
    /\ Quiescent
    /\ Len(game_logs) = 2
    /\ game_logs[1].event_type = "treasure_found"
    /\ game_logs[2].event_type = "win"
    /\ game_logs[1].user_id = game_logs[2].user_id
    /\ game_logs[1].user_id \in DOMAIN users
    /\ Wins(game_logs[1].user_id) = 1
    /\ TotalPoints(game_logs[1].user_id) = 25

\* times taken in tenths of a second: from -1.5 s to 1.5 s in steps of 0.1 s,
\* the times around the 40 s after which the reward stays at 10, and main()'s
RiddleTimes == (-15..15) \cup {305, 395, 400, 405, 600}

\* one client registering the first test user and answering a riddle correctly
\* in any of these times
PointsNext ==
    \E c \in {"c1"} :
        \/ CreateUser(c, JohnDoe)
        \/ \E u \in ObjectIds, r \in Riddles, t \in RiddleTimes :
                LogRiddleAttempt(c, u, r, TRUE, t)
        \/ AddWinNested(c)
        \/ AddWinUpdateOne(c)
        \/ AddWinLogEvent(c)

PointsSpec == Init /\ [][PointsNext]_vars

\* C38: the points a correct riddle attempt hands to add_win are, for a time
\* taken of 0 or more, between 10 and 50 and no less than the points of any
\* longer time; and for every time taken, negative ones included, they are
\* max(10, 50 - floor(time_taken)).
C38_RiddlePoints ==
    [][\A c \in Callers :
        (pc[c] = "idle" /\ pc'[c] = "aw_find" /\ loc'[c].outer = "log_riddle_attempt")
        => LET t == loc'[c].args.time_taken
               points == loc'[c].points
           IN  /\ t >= 0 => /\ points >= 10
                            /\ points <= 50
                            /\ \A later \in RiddleTimes :
                                  later >= t => RiddlePoints(later) <= points
               /\ points = Max(10, 50 - Floor(t))]_vars

\* two clients registering the first test user, scoring for it and hard
\* deleting it, interleaved at the store's operations
RaceNext ==
    \E c \in Callers :
        \/ CreateUser(c, JohnDoe)
        \/ \E u \in ObjectIds, g \in GameTypes, p \in WinPoints : AddWin(c, u, g, p)
        \/ AddWinUpdateOne(c)
        \/ AddWinLogEvent(c)
        \/ \E u \in ObjectIds : DeleteUser(c, u)

RaceSpec == Init /\ [][RaceNext]_vars

\* C39: an id that has been given out and is no longer stored never comes
\* back; add_win's write for a player deleted since its read leaves no record;
\* and an add_win whose write matched no player does not report success and
\* records no win.
C39_DeleteDuringAddWin ==
    [][/\ \A u \in ObjectIds : (u < nextId /\ u \notin DOMAIN users) => u \notin DOMAIN users'
       /\ \A c \in Callers :
            /\ (/\ pc[c] = "aw_update"
                /\ pc'[c] # "aw_update"
                /\ loc[c].user_id \notin DOMAIN users)
               => users' = users
            /\ (/\ pc[c] = "aw_log"
                /\ pc'[c] = "idle"
                /\ loc[c].outer = "add_win"
                /\ loc[c].matched_count = 0)
               => /\ ret'.outcome # "success"
                  /\ game_logs' = game_logs]_vars

\* the second test user's profile with counters put in by the caller
JaneSmithWithCounters == JaneSmith @@ [wins |-> 3, total_points |-> 120]

StartProfiles == {JohnDoe, JaneSmithWithCounters}

\* one client registering players, one of them with counters in its profile,
\* scoring, and reading wins and ranks
StartNext ==
    \E c \in {"c1"} :
        \/ \E p \in StartProfiles : CreateUser(c, p)
        \/ \E u \in ObjectIds, g \in GameTypes, p \in WinPoints : AddWin(c, u, g, p)
        \/ AddWinUpdateOne(c)
        \/ AddWinLogEvent(c)
        \/ \E u \in UserIdInputs : GetNumberOfWins(c, u)
        \/ \E u \in UserIdInputs : GetUserRankFindOne(c, u)
        \/ GetUserRankCount(c)

StartSpec == Init /\ [][StartNext]_vars

\* the points a player has got from add_win calls: 0 until the first one
Earned(u) == IF credited[u].n = 0 THEN 0 ELSE TotalPoints(u)

\* C40: with no call in progress, a stored player that no add_win has credited
\* yet has zero wins and zero total_points; get_number_of_wins returns 0 for
\* it, and get_user_rank ranks every player with such players counted at 0
\* points.
C40_StartsAtZero ==
    /\ Quiescent => \A u \in DOMAIN users :
          credited[u].n = 0 => Wins(u) = 0 /\ TotalPoints(u) = 0
    /\ (ret.op = "get_number_of_wins" /\ ret.user_id \in DOMAIN users
        /\ credited[ret.user_id].n = 0) => ret.wins = 0
    /\ (ret.op = "get_user_rank" /\ ret.user_id \in DOMAIN users)
       => ret.rank = 1 + Cardinality({v \in DOMAIN users : Earned(v) > Earned(ret.user_id)})

====
